---- MODULE Spec2Model ----
(***************************************************************************)
(* The async task bridge of haproxy-api (src/src/async.rs): task ids, the  *)
(* registry of completion receivers, the loopback notification server, the *)
(* overridden coroutine.yield with its connection pool, and the future the *)
(* script awaits.                                                          *)
(*                                                                         *)
(* The host (HAProxy's Lua scheduler) is single-threaded and cooperative:  *)
(* `cur` names the coroutine that holds the host thread, and a coroutine   *)
(* gives it up only at a socket operation or at msleep.  The tokio side    *)
(* (spawned operations, the listener, one task per accepted connection)    *)
(* runs in parallel with the host and with itself.                         *)
(*                                                                         *)
(* src/src/core.rs holds the queue variant of the same bridge: the host    *)
(* coroutine waits on a core.queue() object instead of a socket, and one   *)
(* watcher task of the host pushes to the queues as the ids of resolved    *)
(* operations arrive on a single loopback stream.  Its state is `qvars`.   *)
(***************************************************************************)
EXTENDS Integers, Sequences, FiniteSets, TLC

VARIABLES
    cur,      \* the coroutine running on the host thread, 0 when none runs
    co,       \* per coroutine: position, task id, cached id, socket, join handle
    active,   \* the Lua global __RUST_ACTIVE_FUTURE_ID (-1: nil)
    pool,     \* ObjectPool.0, the Vec of pooled sockets (last element on top)
    nextId,   \* NEXT_ID
    watcher,  \* WATCHER and the listener task: "none", "spawned", "listening"
    rxmap,    \* FUTURE_RX_MAP: task id -> the task whose receiver it holds
    task,     \* spawned operations: state, outcome, id, calling coroutine, and
              \* how often READY was answered for its receiver (history)
    sk,       \* sockets: client side state, server connection task, lines in flight
    faults,   \* connections broken so far by the environment
    probe,    \* a foreign loopback client: lines sent and replies read
    lua,      \* the Lua state's registration side: coroutine.yield, guard, pool userdata
    rt,       \* RUNTIME, the OnceLock of the tokio runtime, and the threads in runtime()
    issued,   \* the allocations of get_future_id so far: how many, the last id, all ids
    np,       \* NOTIFICATION_PORT and WATCHER, the listener tasks spawned, the threads in them
    qcur,     \* queue variant (src/src/core.rs): the coroutine on the host thread
    qco,      \* per coroutine: position, future id, wake-queue, join handle
    achan,    \* the Lua global __HAPROXY_ACTIVE_CHANNEL (0: nil)
    qpool,    \* Pool.0, the Vec of released wake-queues (last element on top)
    qnextId,  \* NEXT_ID of core.rs, an AtomicU32
    future2channel, \* FutureChannelMap.0: future id -> wake-queue
    queue,    \* the core.queue() objects alive: items each one holds
    qtask,    \* spawned operations: state, outcome, id, calling coroutine
    notifier  \* the notification path: mpsc channel, stream to the watcher task

(* The state of the queue variant *)
qvars == <<qcur, qco, achan, qpool, qnextId, future2channel, queue, qtask, notifier>>

(* The state of the loopback variant (src/src/async.rs) *)
avars == <<cur, co, active, pool, nextId, watcher, rxmap, task, sk, faults, probe, lua, rt,
           issued, np>>

vars == <<cur, co, active, pool, nextId, watcher, rxmap, task, sk, faults, probe, lua, rt,
          issued, np, qvars>>

----------------------------------------------------------------------------
(* Bounds of the model *)

NumCor == 2         \* coroutines of the host
NumThr == 3         \* threads that call runtime()
MaxRtCalls == 2     \* calls of runtime() each thread makes
MaxCalls == 1       \* async calls each coroutine makes
MaxPortCalls == 2   \* calls of create_async_function or get_future_id per thread
NumPorts == 2       \* free ports the system may hand out for a bind to port 0
MaxFaults == 1      \* connections the environment breaks
MaxProbe == 2       \* lines the foreign client sends
MaxReg == 3         \* create_async_function calls made while the module loads
MaxAlloc == 65537   \* ids allocated in a row: the id space and one more

(* Program constants *)

PER_WORKER_POOL_SIZE == 512
FutureIdModulus == 65536
COOLDOWN_MS == 1
POOL_MAX_SIZE == 512
NOTIFIER_CAPACITY == 1024

Cor == 1..NumCor
Thr == 1..NumThr
NoCor == 0
NoSock == -1
ProbeSock == 0
NoId == -1
NoQueue == 0

----------------------------------------------------------------------------
(* Lines of the wire protocol.  A request line is a sequence of characters; *)
(* the client formats the id in decimal, the server trims and parses it.   *)

DigitChars == <<"0", "1", "2", "3", "4", "5", "6", "7", "8", "9">>

IsDigit(ch) == \E d \in 1..10 : DigitChars[d] = ch

DigitVal(ch) == (CHOOSE d \in 1..10 : DigitChars[d] = ch) - 1

RECURSIVE ToDecimal(_)
ToDecimal(n) ==
    IF n < 10 THEN <<DigitChars[n + 1]>>
    ELSE ToDecimal(n \div 10) \o <<DigitChars[(n % 10) + 1]>>

RECURSIVE Trim(_)
Trim(line) ==
    IF line = <<>> THEN line
    ELSE IF Head(line) = " " THEN Trim(Tail(line))
    ELSE IF line[Len(line)] = " " THEN Trim(SubSeq(line, 1, Len(line) - 1))
    ELSE line

RECURSIVE DigitsValue(_)
DigitsValue(ds) ==
    IF ds = <<>> THEN 0
    ELSE 10 * DigitsValue(SubSeq(ds, 1, Len(ds) - 1)) + DigitVal(ds[Len(ds)])

(* str::parse::<u16>: an optional '+', then one or more digits, no overflow *)
ParseFutureId(line) ==
    LET ds == IF line # <<>> /\ Head(line) = "+" THEN Tail(line) ELSE line
    IN  IF ds # <<>> /\ (\A i \in 1..Len(ds) : IsDigit(ds[i]))
           /\ Len(ds) <= 6 /\ DigitsValue(ds) < FutureIdModulus
        THEN DigitsValue(ds)
        ELSE NoId

PING == <<"P", "I", "N", "G">>

ProbeLines == {PING, <<" ", "1">>, <<"x">>}

----------------------------------------------------------------------------
(* Helpers on functions with a growing domain *)

Remove(f, k) == [x \in (DOMAIN f) \ {k} |-> f[x]]

Put(f, k, v) == [x \in (DOMAIN f) \cup {k} |-> IF x = k THEN v ELSE f[x]]

FreshSock == CHOOSE s \in 1..(Cardinality(DOMAIN sk) + 1) : s \notin DOMAIN sk

NewSocket == [st |-> "new", srv |-> "none", wait |-> 0, wid |-> NoId,
              req |-> <<>>, rep |-> <<>>]

----------------------------------------------------------------------------
(* Initial states *)

IdleCo == [pc |-> "idle", id |-> NoId, fid |-> NoId, sock |-> NoSock, task |-> 0,
           calls |-> 0, woke |-> "none", timer |-> 0, ret |-> <<>>]

NoRegistration == [before |-> 0, failNew |-> "none", failCreate |-> FALSE,
                   failDrop |-> "none", guard |-> FALSE, restores |-> 0,
                   printed |-> FALSE, res |-> "none"]

(* A Lua state in which nothing has been registered yet *)
FreshLua == [yield |-> 0, nreg |-> 0, nfuncs |-> 0, npools |-> 0, port |-> 0,
             regpool |-> 0, made |-> 0, fpool |-> {},
             last |-> NoRegistration]

(* The Lua state after the module's load function made one async function *)
LoadedLua == [yield |-> 0, nreg |-> 1, nfuncs |-> 1, npools |-> 1, port |-> 1,
              regpool |-> 1, made |-> 1, fpool |-> {1},
              last |-> [NoRegistration EXCEPT !.guard = TRUE, !.restores = 1,
                                              !.res = "ok"]]

(* The OnceLock is empty and no thread is inside runtime() *)
RuntimeInit == [once |-> "incomplete", cell |-> 0, runs |-> 0, built |-> 0,
                fails |-> 0,
                thr |-> [th \in Thr |-> [pc |-> "out", got |-> 0, mk |-> 0,
                                          calls |-> 0]]]

(* NOTIFICATION_PORT and WATCHER are empty, no listener task is spawned and *)
(* no thread is inside create_async_function or get_future_id.            *)
PortInit == [port |-> [once |-> "incomplete", val |-> 0, runs |-> 0],
             watcher |-> [once |-> "incomplete", runs |-> 0],
             listeners |-> <<>>,
             thr |-> [th \in Thr |-> [pc |-> "out", ctx |-> "none", port |-> 0,
                                       calls |-> 0, ids |-> 0]]]

(* No id has been allocated *)
NoneIssued == [n |-> 0, last |-> NoId, ids |-> {}]

(* The queue variant before the first call: no notifier, no queue *)
QIdleCo == [pc |-> "idle", id |-> NoId, chan |-> NoQueue, task |-> 0, calls |-> 0,
            wq |-> NoQueue, woke |-> "none", ret |-> <<>>]

NoNotifier == [st |-> "none", chan |-> <<>>, stream |-> <<>>, srv |-> "accept",
               errs |-> 0]

QueueInit ==
    /\ qcur = NoCor
    /\ qco = [c \in Cor |-> QIdleCo]
    /\ achan = NoQueue
    /\ qpool = <<>>
    /\ qnextId = 1
    /\ future2channel = <<>>
    /\ queue = <<>>
    /\ qtask = <<>>
    /\ notifier = NoNotifier

(* The loopback variant before the first call *)
LoopbackInit ==
    /\ rt = RuntimeInit
    /\ np = PortInit
    /\ issued = NoneIssued
    /\ cur = NoCor
    /\ co = [c \in Cor |-> IdleCo]
    /\ active = NoId
    /\ pool = <<>>
    /\ nextId = 1
    /\ watcher = "none"
    /\ rxmap = <<>>
    /\ task = <<>>
    /\ sk = <<>>
    /\ faults = 0
    /\ probe = [sent |-> 0, got |-> <<>>]

BridgeInit == LoopbackInit /\ QueueInit

Init == BridgeInit /\ lua = LoadedLua

----------------------------------------------------------------------------
(* The registry: set_rx_by_future_id and get_rx_by_future_id *)

(* A registration that stores nothing *)
set_rx_lost(m, future_id, t) == m

(* An insert that keeps a receiver already stored under the id *)
set_rx_keeps_first(m, future_id, t) ==
    IF future_id \in DOMAIN m THEN m ELSE Put(m, future_id, t)

(* DashMap::insert: a receiver already stored under the id is replaced *)
set_rx_by_future_id(m, future_id, t) == Put(m, future_id, t)

(* A lookup that leaves the receiver in the map *)
get_rx_keeps_entry(m, future_id) ==
    IF future_id \in DOMAIN m
    THEN [rx |-> m[future_id], map |-> m]
    ELSE [rx |-> 0, map |-> m]

(* DashMap::remove: the receiver, if any (0: None), and the map without it *)
get_rx_by_future_id(m, future_id) ==
    IF future_id \in DOMAIN m
    THEN [rx |-> m[future_id], map |-> Remove(m, future_id)]
    ELSE [rx |-> 0, map |-> m]

(* A counter that returns the value after the increment *)
FetchAddIdNew(n) ==
    [id |-> (n + 1) % FutureIdModulus, next |-> (n + 1) % FutureIdModulus]

(* NEXT_ID.fetch_add(1): the id returned and the counter after it *)
FetchAddId(n) == [id |-> n, next |-> (n + 1) % FutureIdModulus]

(* The ids allocated so far are kept as a set of disjoint intervals       *)
(* <<low, high>> that do not touch each other.                            *)
InIds(S, x) == \E r \in S : r[1] <= x /\ x <= r[2]

AddId(S, x) ==
    IF InIds(S, x) THEN S
    ELSE LET left == {r \in S : r[2] = x - 1}
             right == {r \in S : r[1] = x + 1}
             low == IF left = {} THEN x ELSE (CHOOSE r \in left : TRUE)[1]
             high == IF right = {} THEN x ELSE (CHOOSE r \in right : TRUE)[2]
         IN  (S \ (left \cup right)) \cup {<<low, high>>}

RECURSIVE SizeIds(_)
SizeIds(S) ==
    IF S = {} THEN 0
    ELSE LET r == CHOOSE x \in S : TRUE
         IN  (r[2] - r[1] + 1) + SizeIds(S \ {r})

(* get_future_id on its own: the watcher is started once, and the id is    *)
(* one atomic fetch_add on NEXT_ID.  The threads of the host that call it  *)
(* at the same time are ordered by the atomic operation, so their calls    *)
(* are steps of this action one after the other.                           *)
Allocate ==
    /\ issued.n < MaxAlloc
    /\ LET a == FetchAddId(nextId)
       IN  /\ nextId' = a.next
           /\ issued' = [n |-> issued.n + 1, last |-> a.id,
                         ids |-> AddId(issued.ids, a.id)]
    /\ watcher' = IF watcher = "none" THEN "spawned" ELSE watcher
    /\ UNCHANGED <<cur, co, active, pool, rxmap, task, sk, faults, probe, lua, rt, np, qvars>>

(* A completion that is looked up by task id: any task of the id has fired *)
FiredById(t) ==
    \E u \in DOMAIN task :
        task[u].id = task[t].id /\ task[u].st \in {"signalled", "finished"}

(* A task that sends the signal only when its operation succeeded *)
FiredOnSuccess(t) ==
    task[t].st \in {"signalled", "finished"} /\ task[t].out = "ok"

(* The sender of task t has fired: rx.await on its receiver resolves *)
Fired(t) == task[t].st \in {"signalled", "finished"}

----------------------------------------------------------------------------
(* The connection pool *)

(* A get that hands out the top of the pool and leaves it there *)
PoolGetPeek(p) ==
    IF p = <<>> THEN [sock |-> NoSock, pool |-> p]
    ELSE [sock |-> p[Len(p)], pool |-> p]

(* ObjectPool "get": Vec::pop *)
PoolGet(p) ==
    IF p = <<>> THEN [sock |-> NoSock, pool |-> p]
    ELSE [sock |-> p[Len(p)], pool |-> SubSeq(p, 1, Len(p) - 1)]

(* A put without the capacity check *)
PoolPutUnbounded(p, s) == [ok |-> TRUE, pool |-> Append(p, s)]

(* ObjectPool "put": refuses when the pool holds PER_WORKER_POOL_SIZE *)
PoolPut(p, s) ==
    IF Len(p) = PER_WORKER_POOL_SIZE THEN [ok |-> FALSE, pool |-> p]
    ELSE [ok |-> TRUE, pool |-> Append(p, s)]

(* A close that leaves the connection open *)
CloseSockNoop(socks, s) == socks

(* sock:close() on the client side.  The record of a socket goes away when *)
(* the server's connection task has ended too.                             *)
CloseSock(socks, s) ==
    IF socks[s].srv \in {"none", "ended"} THEN Remove(socks, s)
    ELSE [socks EXCEPT ![s].st = "closed", ![s].rep = <<>>]

(* The tail of new_yield: put the socket back, close it if the pool is full *)
CheckIn(p, socks, s) ==
    LET r == PoolPut(p, s)
    IN  [pool |-> r.pool, sk |-> IF r.ok THEN socks ELSE CloseSock(socks, s)]

----------------------------------------------------------------------------
(* The async function the script calls (the closure of create_async_function) *)

(* A result that is looked up by task id: the oldest task of that id *)
JoinOutputById(t) ==
    LET first == CHOOSE u \in DOMAIN task :
                     /\ task[u].id = task[t].id
                     /\ \A v \in DOMAIN task : task[v].id = task[t].id => u <= v
    IN  [task |-> first, out |-> task[first].out]

(* The value a call hands to the script: the output of its own join handle *)
JoinOutput(t) == [task |-> t, out |-> task[t].out]

(* One invocation: a new id, the argument conversion, the registration of   *)
(* the receiver and the spawn of the operation.  The first poll follows on  *)
(* the same host slice.                                                     *)
Call(c) ==
    /\ cur = NoCor
    /\ co[c].pc = "idle"
    /\ co[c].calls < MaxCalls
    /\ lua.nfuncs > 0
    /\ LET a == FetchAddId(nextId)
           t == Len(task) + 1
       IN  /\ nextId' = a.next
           /\ watcher' = IF watcher = "none" THEN "spawned" ELSE watcher
           /\ \E argsOk \in BOOLEAN :
                IF argsOk
                THEN /\ rxmap' = set_rx_by_future_id(rxmap, a.id, t)
                     /\ task' = Append(task, [st |-> "running", out |-> "none",
                                              id |-> a.id, owner |-> c,
                                              ready |-> 0])
                     /\ co' = [co EXCEPT ![c].pc = "poll", ![c].id = a.id,
                                         ![c].task = t, ![c].calls = @ + 1,
                                         ![c].woke = "none"]
                     /\ cur' = c
                ELSE /\ co' = [co EXCEPT ![c].calls = @ + 1,
                                         ![c].ret = Append(@, [task |-> 0,
                                                               out |-> "argerr"])]
                     /\ UNCHANGED <<rxmap, task, cur>>
    /\ UNCHANGED <<active, pool, sk, faults, probe, lua, rt,
                   issued, np, qvars>>

(* A poll that reports Ready as soon as the coroutine was woken by READY *)
PollReadyOnWake(c) ==
    task[co[c].task].st = "finished" \/ co[c].woke = "READY"

(* HaproxyFuture::poll: Ready with the join handle's output once the task   *)
(* has finished, else the id goes into the active slot and Pending.        *)
PollReady(c) == task[co[c].task].st = "finished"

(* A poll that writes the slot only when the slot is empty *)
PollWritesOnce(c) ==
    /\ cur = c
    /\ co[c].pc = "poll"
    /\ IF PollReady(c)
       THEN /\ co' = [co EXCEPT ![c].pc = "idle", ![c].id = NoId,
                                ![c].task = 0, ![c].woke = "none",
                                ![c].ret = Append(@, JoinOutput(co[c].task))]
            /\ cur' = NoCor
            /\ UNCHANGED active
       ELSE /\ active' = IF active = NoId THEN co[c].id ELSE active
            /\ co' = [co EXCEPT ![c].pc = "yield", ![c].woke = "none"]
            /\ UNCHANGED cur
    /\ UNCHANGED <<pool, nextId, watcher, rxmap, task, sk, faults, probe, lua, rt,
                   issued, np, qvars>>

Poll(c) ==
    /\ cur = c
    /\ co[c].pc = "poll"
    /\ IF PollReady(c)
       THEN /\ co' = [co EXCEPT ![c].pc = "idle", ![c].id = NoId,
                                ![c].task = 0, ![c].woke = "none",
                                ![c].ret = Append(@, JoinOutput(co[c].task))]
            /\ cur' = NoCor
            /\ UNCHANGED active
       ELSE /\ active' = co[c].id
            /\ co' = [co EXCEPT ![c].pc = "yield", ![c].woke = "none"]
            /\ UNCHANGED cur
    /\ UNCHANGED <<pool, nextId, watcher, rxmap, task, sk, faults, probe, lua, rt,
                   issued, np, qvars>>

----------------------------------------------------------------------------
(* new_yield, the function that replaces coroutine.yield *)

(* Entry: cache the active id, take a pooled socket or make a new one and  *)
(* start to connect it.  The socket operation suspends the coroutine.      *)
YieldEnter(c) ==
    /\ cur = c
    /\ co[c].pc = "yield"
    /\ LET g == PoolGet(pool)
       IN  IF g.sock # NoSock
           THEN /\ pool' = g.pool
                /\ co' = [co EXCEPT ![c].fid = active, ![c].sock = g.sock,
                                    ![c].pc = "send"]
                /\ UNCHANGED sk
           ELSE /\ co' = [co EXCEPT ![c].fid = active, ![c].sock = FreshSock,
                                    ![c].pc = "connect"]
                /\ sk' = Put(sk, FreshSock, NewSocket)
                /\ UNCHANGED pool
    /\ cur' = NoCor
    /\ UNCHANGED <<active, nextId, watcher, rxmap, task, faults, probe, lua, rt,
                   issued, np, qvars>>

(* An I/O error after which the yield returns at once, without the sleep *)
GiveUpNoSleep(c, socks, why) ==
    /\ sk' = socks
    /\ co' = [co EXCEPT ![c].pc = "poll", ![c].sock = NoSock, ![c].woke = why]

(* An I/O error that is raised to the script as the result of the call *)
GiveUpRaises(c, socks, why) ==
    /\ sk' = socks
    /\ co' = [co EXCEPT ![c].pc = "idle", ![c].sock = NoSock, ![c].woke = why,
                        ![c].ret = Append(@, [task |-> 0, out |-> why])]

(* An I/O error inside new_yield: the socket is given up (closed when it   *)
(* was connected), msleep(1), and the yield returns.                       *)
GiveUp(c, socks, why) ==
    /\ sk' = socks
    /\ co' = [co EXCEPT ![c].pc = "sleep", ![c].sock = NoSock,
                        ![c].timer = COOLDOWN_MS, ![c].woke = why]

(* sock:connect returns *)
ConnectDone(c) ==
    /\ cur = NoCor
    /\ co[c].pc = "connect"
    /\ LET s == co[c].sock
       IN  \/ /\ watcher = "listening"
              /\ sk' = [sk EXCEPT ![s].st = "open", ![s].srv = "reading"]
              /\ co' = [co EXCEPT ![c].pc = "send"]
           \/ /\ watcher # "listening"
              /\ GiveUp(c, Remove(sk, s), "connect_err")
    /\ UNCHANGED <<cur, active, pool, nextId, watcher, rxmap, task, faults, probe, lua, rt,
                   issued, np, qvars>>

(* A send that reads the active id slot when it sends *)
SendDoneLateRead(c) ==
    /\ cur = NoCor
    /\ co[c].pc = "send"
    /\ LET s == co[c].sock
       IN  \/ /\ sk[s].st = "open"
              /\ sk' = [sk EXCEPT ![s].req = Append(@, ToDecimal(active))]
              /\ co' = [co EXCEPT ![c].pc = "receive"]
           \/ /\ sk[s].st = "broken"
              /\ GiveUp(c, CloseSock(sk, s), "send_err")
           \/ /\ sk[s].st = "broken"
              /\ co' = [co EXCEPT ![c].pc = "receive"]
              /\ UNCHANGED sk
    /\ UNCHANGED <<cur, active, pool, nextId, watcher, rxmap, task, faults, probe, lua, rt,
                   issued, np, qvars>>

(* sock:send(future_id .. "\n") returns *)
SendDone(c) ==
    /\ cur = NoCor
    /\ co[c].pc = "send"
    /\ LET s == co[c].sock
       IN  \/ /\ sk[s].st = "open"
              /\ sk' = [sk EXCEPT ![s].req = Append(@, ToDecimal(co[c].fid))]
              /\ co' = [co EXCEPT ![c].pc = "receive"]
           \/ /\ sk[s].st = "broken"
              /\ GiveUp(c, CloseSock(sk, s), "send_err")
           \/ /\ sk[s].st = "broken"     \* the line is buffered and lost
              /\ co' = [co EXCEPT ![c].pc = "receive"]
              /\ UNCHANGED sk
    /\ UNCHANGED <<cur, active, pool, nextId, watcher, rxmap, task, faults, probe, lua, rt,
                   issued, np, qvars>>

(* A client that takes any reply line for the wake-up *)
IsReadyAnyLine(line) == TRUE

(* The reply line "READY" ends the wait; any other line costs a cooldown *)
IsReady(line) == line = "READY"

(* sock:receive("*l") returns: a line, or an error on a dead connection *)
RecvDone(c) ==
    /\ co[c].pc = "receive"
    /\ cur = NoCor
    /\ LET s == co[c].sock
       IN  \/ /\ sk[s].rep # <<>>
              /\ LET line == Head(sk[s].rep)
                     socks == [sk EXCEPT ![s].rep = Tail(@)]
                 IN  IF IsReady(line)
                     THEN LET r == CheckIn(pool, socks, s)
                          IN  /\ pool' = r.pool
                              /\ sk' = r.sk
                              /\ co' = [co EXCEPT ![c].pc = "poll",
                                                  ![c].sock = NoSock,
                                                  ![c].fid = NoId,
                                                  ![c].woke = "READY"]
                              /\ cur' = c
                     ELSE /\ sk' = socks
                          /\ co' = [co EXCEPT ![c].pc = "cooldown",
                                              ![c].timer = COOLDOWN_MS,
                                              ![c].woke = line]
                          /\ UNCHANGED <<pool, cur>>
           \/ /\ sk[s].rep = <<>>
              /\ sk[s].st = "broken" \/ sk[s].srv = "ended"
              /\ GiveUp(c, CloseSock(sk, s), "recv_err")
              /\ UNCHANGED <<pool, cur>>
    /\ UNCHANGED <<active, nextId, watcher, rxmap, task, faults, probe, lua, rt,
                   issued, np, qvars>>

(* msleep(1) is over after an I/O error: the yield returns without a socket *)
SleepDone(c) ==
    /\ cur = NoCor
    /\ co[c].pc = "sleep"
    /\ co' = [co EXCEPT ![c].pc = "poll", ![c].timer = 0, ![c].fid = NoId]
    /\ cur' = c
    /\ UNCHANGED <<active, pool, nextId, watcher, rxmap, task, sk, faults, probe, lua, rt,
                   issued, np, qvars>>

(* msleep(1) is over after a reply other than READY: the socket is checked in *)
CooldownDone(c) ==
    /\ cur = NoCor
    /\ co[c].pc = "cooldown"
    /\ LET r == CheckIn(pool, sk, co[c].sock)
       IN  /\ pool' = r.pool
           /\ sk' = r.sk
    /\ co' = [co EXCEPT ![c].pc = "poll", ![c].timer = 0, ![c].sock = NoSock,
                        ![c].fid = NoId]
    /\ cur' = c
    /\ UNCHANGED <<active, nextId, watcher, rxmap, task, faults, probe, lua, rt,
                   issued, np, qvars>>

----------------------------------------------------------------------------
(* The tokio side: the listener, the spawned operations, the connections *)

(* The notification task binds its listener *)
ListenerBind ==
    /\ watcher = "spawned"
    /\ watcher' = "listening"
    /\ UNCHANGED <<cur, co, active, pool, nextId, rxmap, task, sk, faults, probe, lua, rt,
                   issued, np, qvars>>

(* The wrapped operation resolves and the task sends on its oneshot sender; *)
(* the send is lost when the receiver was dropped.                          *)
TaskSignal(t) ==
    /\ t \in DOMAIN task
    /\ task[t].st = "running"
    /\ \E o \in {"ok", "err"} :
         task' = [task EXCEPT ![t].st = "signalled", ![t].out = o]
    /\ UNCHANGED <<cur, co, active, pool, nextId, watcher, rxmap, sk, faults, probe, lua, rt,
                   issued, np, qvars>>

(* The task returns its result: the join handle resolves *)
TaskFinish(t) ==
    /\ t \in DOMAIN task
    /\ task[t].st = "signalled"
    /\ task' = [task EXCEPT ![t].st = "finished"]
    /\ UNCHANGED <<cur, co, active, pool, nextId, watcher, rxmap, sk, faults, probe, lua, rt,
                   issued, np, qvars>>

(* writer.write_all(resp): the line is queued on a live connection and the *)
(* task reads on; on a dead one the write fails and the task ends.         *)
SrvWrite(socks, s, resp) ==
    IF socks[s].st = "open"
    THEN [socks EXCEPT ![s].rep = Append(@, resp), ![s].srv = "reading",
                       ![s].wait = 0, ![s].wid = NoId]
    ELSE IF socks[s].st = "closed" THEN Remove(socks, s)
    ELSE [socks EXCEPT ![s].srv = "ended", ![s].wait = 0, ![s].wid = NoId]

(* A PING that is read and not answered *)
OnPingSilent(socks, s) == socks

(* The answer to PING *)
OnPing(socks, s) == SrvWrite(socks, s, "PONG")

(* The connection task reads one line: PING, a task id, or anything else *)
SrvRead(s) ==
    /\ s \in DOMAIN sk
    /\ sk[s].srv = "reading"
    /\ sk[s].req # <<>>
    /\ LET line == Trim(Head(sk[s].req))
           socks == [sk EXCEPT ![s].req = Tail(@)]
           future_id == ParseFutureId(line)
           got == get_rx_by_future_id(rxmap, future_id)
       IN  IF line = PING
           THEN /\ sk' = OnPing(socks, s)
                /\ UNCHANGED rxmap
           ELSE IF future_id # NoId
           THEN /\ rxmap' = got.map
                /\ sk' = IF got.rx # 0
                         THEN [socks EXCEPT ![s].srv = "waiting",
                                            ![s].wait = got.rx,
                                            ![s].wid = future_id]
                         ELSE SrvWrite(socks, s, "ERR")
           ELSE /\ sk' = socks
                /\ UNCHANGED rxmap
    /\ UNCHANGED <<cur, co, active, pool, nextId, watcher, task, faults, probe, lua, rt,
                   issued, np, qvars>>

(* A connection task that does not wait for the receiver *)
RxResolvedAtOnce(t) == TRUE

(* rx.await resolves *)
RxResolved(t) == Fired(t)

(* The receiver the connection task awaits resolves: READY is written *)
SrvReady(s) ==
    /\ s \in DOMAIN sk
    /\ sk[s].srv = "waiting"
    /\ RxResolved(sk[s].wait)
    /\ sk' = SrvWrite(sk, s, "READY")
    /\ task' = [task EXCEPT ![sk[s].wait].ready = IF @ < 2 THEN @ + 1 ELSE @]
    /\ UNCHANGED <<cur, co, active, pool, nextId, watcher, rxmap, faults, probe, lua, rt,
                   issued, np, qvars>>

(* next_line() yields None or an error: the connection task ends *)
SrvEof(s) ==
    /\ s \in DOMAIN sk
    /\ sk[s].srv = "reading"
    /\ sk[s].req = <<>>
    /\ sk[s].st \in {"closed", "broken"}
    /\ sk' = IF sk[s].st = "closed" THEN Remove(sk, s)
             ELSE [sk EXCEPT ![s].srv = "ended"]
    /\ UNCHANGED <<cur, co, active, pool, nextId, watcher, rxmap, task, faults, probe, lua, rt,
                   issued, np, qvars>>

----------------------------------------------------------------------------
(* The environment *)

(* An established connection breaks; the lines in flight are lost *)
Fault(s) ==
    /\ s \in DOMAIN sk
    /\ sk[s].st = "open"
    /\ faults < MaxFaults
    /\ faults' = faults + 1
    /\ sk' = [sk EXCEPT ![s].st = "broken", ![s].req = <<>>, ![s].rep = <<>>]
    /\ UNCHANGED <<cur, co, active, pool, nextId, watcher, rxmap, task, probe, lua, rt,
                   issued, np, qvars>>

(* sock:connect fails although the listener is up (no descriptor, backlog) *)
ConnectRefused(c) ==
    /\ cur = NoCor
    /\ co[c].pc = "connect"
    /\ watcher = "listening"
    /\ faults < MaxFaults
    /\ faults' = faults + 1
    /\ GiveUp(c, Remove(sk, co[c].sock), "connect_err")
    /\ UNCHANGED <<cur, active, pool, nextId, watcher, rxmap, task, probe, lua, rt,
                   issued, np, qvars>>

(* Another client of the loopback port connects *)
ProbeConnect ==
    /\ watcher = "listening"
    /\ ProbeSock \notin DOMAIN sk
    /\ probe.sent = 0
    /\ sk' = Put(sk, ProbeSock, [NewSocket EXCEPT !.st = "open", !.srv = "reading"])
    /\ UNCHANGED <<cur, co, active, pool, nextId, watcher, rxmap, task, faults, probe, lua, rt,
                   issued, np, qvars>>

(* ... sends a line, one request at a time *)
ProbeSend(line) ==
    /\ ProbeSock \in DOMAIN sk
    /\ sk[ProbeSock].st = "open"
    /\ sk[ProbeSock].req = <<>> /\ sk[ProbeSock].rep = <<>>
    /\ sk[ProbeSock].srv = "reading"
    /\ probe.sent < MaxProbe
    /\ probe' = [probe EXCEPT !.sent = @ + 1]
    /\ sk' = [sk EXCEPT ![ProbeSock].req = Append(@, line)]
    /\ UNCHANGED <<cur, co, active, pool, nextId, watcher, rxmap, task, faults, lua, rt,
                   issued, np, qvars>>

(* ... and reads a reply *)
ProbeRecv ==
    /\ ProbeSock \in DOMAIN sk
    /\ sk[ProbeSock].rep # <<>>
    /\ probe' = [probe EXCEPT !.got = Append(@, Head(sk[ProbeSock].rep))]
    /\ sk' = [sk EXCEPT ![ProbeSock].rep = Tail(@)]
    /\ UNCHANGED <<cur, co, active, pool, nextId, watcher, rxmap, task, faults, lua, rt,
                   issued, np, qvars>>

----------------------------------------------------------------------------
(* create_async_function and its YieldFixUp guard.  It runs on the host    *)
(* thread while the module is loaded.  Every mlua call in it may fail; the *)
(* place of the failure is the input.                                      *)

NewFailures == {"none", "registry", "userdata", "setreg", "coroutine",
                "getyield", "load", "setyield"}

DropFailures == {"none", "get", "set"}

(* YieldFixUp::new stores a pool in the registry when none is there yet *)
PoolStored(l, failNew) ==
    l.npools = 0 /\ failNew \notin {"registry", "userdata", "setreg"}

(* A YieldFixUp::new that makes a pool of its own whatever the registry holds *)
ConnectionPoolFresh(l, failNew) ==
    IF failNew = "registry" THEN [pool |-> 0, reg |-> l.regpool, made |-> l.made]
    ELSE IF failNew = "userdata" THEN [pool |-> 0, reg |-> l.regpool, made |-> l.made]
    ELSE IF failNew = "setreg" THEN [pool |-> 0, reg |-> l.regpool, made |-> l.made + 1]
    ELSE [pool |-> l.made + 1, reg |-> l.made + 1, made |-> l.made + 1]

(* YieldFixUp::new, the connection pool: the value in the registry under   *)
(* "__HAPROXY_CONNECTION_POOL", or, when that is nil, a new ObjectPool     *)
(* userdata that is stored there.  `pool` is the userdata the new yield    *)
(* function captures (0: the call failed before), `reg` the registry value *)
(* and `made` the number of pool userdata created so far.                  *)
ConnectionPool(l, failNew) ==
    IF failNew = "registry" THEN [pool |-> 0, reg |-> l.regpool, made |-> l.made]
    ELSE IF l.regpool # 0 THEN [pool |-> l.regpool, reg |-> l.regpool, made |-> l.made]
    ELSE IF failNew = "userdata" THEN [pool |-> 0, reg |-> 0, made |-> l.made]
    ELSE IF failNew = "setreg" THEN [pool |-> 0, reg |-> 0, made |-> l.made + 1]
    ELSE [pool |-> l.made + 1, reg |-> l.made + 1, made |-> l.made + 1]

(* YieldFixUp::new: coroutine.yield after it (k is the new function) *)
FixUpNew(yield, k, failNew) == IF failNew = "none" THEN k ELSE yield

(* A guard that is dropped without restoring coroutine.yield *)
FixUpDropForgets(yield, orig, failDrop) == yield

(* Drop for YieldFixUp: coroutine.yield after it; a failure is printed *)
FixUpDrop(yield, orig, failDrop) == IF failDrop = "none" THEN orig ELSE yield

(* The Result create_async_function returns *)
CreateResult(failNew, failCreate, failDrop) ==
    IF failNew = "none" /\ ~failCreate THEN "ok" ELSE "err"

CreateAsyncFunction(failNew, failCreate, failDrop) ==
    /\ cur = NoCor
    /\ lua.nreg < MaxReg
    /\ failNew \in {"userdata", "setreg"} => lua.npools = 0
    /\ failNew # "none" => (~failCreate /\ failDrop = "none")
    /\ LET orig == lua.yield
           k == lua.nreg + 1
           guard == failNew = "none"
           during == FixUpNew(lua.yield, k, failNew)
           res == CreateResult(failNew, failCreate, failDrop)
           cp == ConnectionPool(lua, failNew)
       IN  lua' = [yield |-> IF guard THEN FixUpDrop(during, orig, failDrop)
                             ELSE during,
                   nreg |-> k,
                   nfuncs |-> IF res = "ok" THEN lua.nfuncs + 1 ELSE lua.nfuncs,
                   npools |-> IF PoolStored(lua, failNew) THEN 1 ELSE lua.npools,
                   port |-> 1,
                   regpool |-> cp.reg,
                   made |-> cp.made,
                   fpool |-> IF res = "ok" THEN lua.fpool \cup {cp.pool} ELSE lua.fpool,
                   last |-> [before |-> orig, failNew |-> failNew,
                             failCreate |-> failCreate, failDrop |-> failDrop,
                             guard |-> guard,
                             restores |-> IF guard THEN 1 ELSE 0,
                             printed |-> guard /\ failDrop # "none",
                             res |-> res]]
    /\ UNCHANGED <<cur, co, active, pool, nextId, watcher, rxmap, task, sk, faults, probe, rt,
                   issued, np, qvars>>

----------------------------------------------------------------------------
(* runtime(): RUNTIME.get_or_init(build).  Any thread of the process may   *)
(* call it; the OnceLock lets one caller run the builder while the others  *)
(* wait.  A builder that fails panics in its caller (expect) and leaves    *)
(* the cell empty.                                                         *)

(* The runtime a caller is handed: the value stored in the cell *)
RuntimeValue(r) == r.cell

(* A check-then-build without the Once: whoever finds the cell empty builds *)
OnceMayRunRacy(state) == state # "complete"

(* Once::call: the closure may be run by a caller that finds the Once      *)
(* incomplete or poisoned; one that finds it running waits.                *)
OnceMayRun(state) == state \in {"incomplete", "poisoned"}

(* The fast path of get_or_init: the cell is set and its value is returned; *)
(* otherwise the caller goes on to the Once.                                *)
RuntimeGet(th) ==
    /\ rt.thr[th].pc = "out"
    /\ rt.thr[th].calls < MaxRtCalls
    /\ rt' = IF rt.once = "complete"
             THEN [rt EXCEPT !.thr[th].got = RuntimeValue(rt),
                             !.thr[th].calls = @ + 1]
             ELSE [rt EXCEPT !.thr[th].pc = "init", !.thr[th].calls = @ + 1]
    /\ UNCHANGED <<cur, co, active, pool, nextId, watcher, rxmap, task, sk, faults, probe, lua,
                   issued, np, qvars>>

(* The caller enters the Once: the value if it is complete by now, else it *)
(* takes the Once and starts the builder.                                  *)
OnceCall(th) ==
    /\ rt.thr[th].pc = "init"
    /\ \/ /\ rt.once = "complete"
          /\ rt' = [rt EXCEPT !.thr[th].pc = "out",
                              !.thr[th].got = RuntimeValue(rt)]
       \/ /\ OnceMayRun(rt.once)
          /\ rt' = [rt EXCEPT !.once = "running", !.runs = @ + 1,
                              !.thr[th].pc = "build",
                              !.thr[th].mk = rt.runs + 1]
    /\ UNCHANGED <<cur, co, active, pool, nextId, watcher, rxmap, task, sk, faults, probe, lua,
                   issued, np, qvars>>

(* runtime::Builder::build() returns: the runtime is stored, or expect panics *)
BuildDone(th) ==
    /\ rt.thr[th].pc = "build"
    /\ \E ok \in BOOLEAN :
         rt' = IF ok
               THEN [rt EXCEPT !.once = "complete", !.built = @ + 1,
                               !.cell = rt.thr[th].mk,
                               !.thr[th].pc = "out", !.thr[th].mk = 0,
                               !.thr[th].got = rt.thr[th].mk]
               ELSE [rt EXCEPT !.once = "poisoned", !.fails = @ + 1,
                               !.thr[th].pc = "panicked", !.thr[th].mk = 0]
    /\ UNCHANGED <<cur, co, active, pool, nextId, watcher, rxmap, task, sk, faults, probe, lua,
                   issued, np, qvars>>

----------------------------------------------------------------------------
(* The queue variant of the bridge (src/src/core.rs).  A call takes a      *)
(* wake-queue from the pool, stores it under a new future id and spawns    *)
(* the operation; the spawned task sends the id to the notification task,  *)
(* which writes it as a line to the watcher task of the host; the watcher  *)
(* pushes an item to the queue stored under the id, and the coroutine that *)
(* waits in pop_wait on that queue is resumed and polls again.             *)

(* NEXT_ID.fetch_add(1) on the AtomicU32.  The counter wraps after 2^32    *)
(* allocations, beyond the integers of TLC: the counter of the model stays *)
(* far below that, and so no wrap is written here.                         *)
QFetchAddId(n) == [id |-> n, next |-> n + 1]

(* core.queue(): a new queue object *)
FreshQueue == CHOOSE q \in 1..(Cardinality(DOMAIN queue) + 1) : q \notin DOMAIN queue

(* A pool whose pop leaves the queue in the pool *)
ChannelGetPeek(p, q) ==
    IF p = <<>>
    THEN [chan |-> FreshQueue, pool |-> p, queue |-> Put(q, FreshQueue, 0)]
    ELSE [chan |-> p[Len(p)], pool |-> p, queue |-> q]

(* pool.0.pop(), or a new queue when the pool is empty *)
ChannelGet(p, q) ==
    IF p = <<>>
    THEN [chan |-> FreshQueue, pool |-> p, queue |-> Put(q, FreshQueue, 0)]
    ELSE [chan |-> p[Len(p)], pool |-> SubSeq(p, 1, Len(p) - 1), queue |-> q]

(* A release that pushes the queue whatever the pool holds *)
ReleaseChannelUnbounded(p, m, q, id) ==
    IF id \notin DOMAIN m THEN [pool |-> p, map |-> m, queue |-> q]
    ELSE [pool |-> Append(p, m[id]), map |-> Remove(m, id), queue |-> q]

(* The release in HaproxyFuture::poll: the id leaves the map, its queue    *)
(* goes to the pool unless the pool holds POOL_MAX_SIZE; a queue that is   *)
(* not pushed is dropped.                                                  *)
ReleaseChannel(p, m, q, id) ==
    IF id \notin DOMAIN m THEN [pool |-> p, map |-> m, queue |-> q]
    ELSE IF Len(p) < POOL_MAX_SIZE
    THEN [pool |-> Append(p, m[id]), map |-> Remove(m, id), queue |-> q]
    ELSE [pool |-> p, map |-> Remove(m, id), queue |-> Remove(q, m[id])]

(* lua.unpack::<FutureId> of the line the watcher received: Lua converts a *)
(* string that is a decimal numeral, blanks around it allowed.  Numerals   *)
(* of up to nine digits are covered; all of them fit the u32.              *)
UnpackFutureId(line) ==
    LET ds == Trim(line)
    IN  IF ds # <<>> /\ (\A i \in 1..Len(ds) : IsDigit(ds[i])) /\ Len(ds) <= 9
        THEN DigitsValue(ds)
        ELSE NoId

(* A wake-up that wakes every queue when the id is not in the map *)
future_wake_up_all(m, q, line) ==
    LET id == UnpackFutureId(line)
    IN  IF id # NoId /\ id \in DOMAIN m
        THEN [q EXCEPT ![m[id]] = @ + 1]
        ELSE [x \in DOMAIN q |-> q[x] + 1]

(* future_wake_up: push an item to the queue stored under the id, nothing  *)
(* when the line is no id or the map holds no such id.                     *)
future_wake_up(m, q, line) ==
    LET id == UnpackFutureId(line)
    IN  IF id # NoId /\ id \in DOMAIN m
        THEN [q EXCEPT ![m[id]] = @ + 1]
        ELSE q

(* One invocation of the async function: the notifier (made on the first   *)
(* call, which blocks until the port is bound and registers the watcher),  *)
(* a queue, a new id, the map entry, the argument conversion, the spawn.   *)
(* The first poll follows on the same host slice.                          *)
QCall(c) ==
    /\ qcur = NoCor
    /\ qco[c].pc = "idle"
    /\ qco[c].calls < MaxCalls
    /\ LET g == ChannelGet(qpool, queue)
           a == QFetchAddId(qnextId)
           t == Len(qtask) + 1
       IN  /\ notifier' = IF notifier.st = "none"
                          THEN [notifier EXCEPT !.st = "bound"]
                          ELSE notifier
           /\ qpool' = g.pool
           /\ queue' = g.queue
           /\ qnextId' = a.next
           /\ future2channel' = Put(future2channel, a.id, g.chan)
           /\ \E argsOk \in BOOLEAN :
                IF argsOk
                THEN /\ qtask' = Append(qtask, [st |-> "running", out |-> "none",
                                                id |-> a.id, owner |-> c])
                     /\ qco' = [qco EXCEPT ![c].pc = "poll", ![c].id = a.id,
                                           ![c].chan = g.chan, ![c].task = t,
                                           ![c].calls = @ + 1, ![c].woke = "none"]
                     /\ qcur' = c
                ELSE /\ qco' = [qco EXCEPT ![c].calls = @ + 1,
                                           ![c].ret = Append(@, [task |-> 0,
                                                                 out |-> "argerr"])]
                     /\ UNCHANGED <<qtask, qcur>>
    /\ UNCHANGED <<achan, avars>>

(* A poll that reports Ready as soon as the coroutine was woken by an item *)
QPollReadyOnItem(c) ==
    qtask[qco[c].task].st = "finished" \/ qco[c].woke = "item"

(* The join handle of the call's task is resolved *)
QPollReady(c) == qtask[qco[c].task].st = "finished"

(* HaproxyFuture::poll of core.rs: Ready releases the queue and hands the  *)
(* result out, Pending stores the call's queue in the active slot.         *)
QPoll(c) ==
    /\ qcur = c
    /\ qco[c].pc = "poll"
    /\ IF QPollReady(c)
       THEN LET r == ReleaseChannel(qpool, future2channel, queue, qco[c].id)
            IN  /\ qpool' = r.pool
                /\ future2channel' = r.map
                /\ queue' = r.queue
                /\ qco' = [qco EXCEPT ![c].pc = "idle", ![c].id = NoId,
                                      ![c].chan = NoQueue, ![c].task = 0,
                                      ![c].wq = NoQueue,
                                      ![c].ret = Append(@,
                                          [task |-> qco[c].task,
                                           out |-> qtask[qco[c].task].out])]
                /\ qcur' = NoCor
                /\ UNCHANGED achan
       ELSE /\ achan' = qco[c].chan
            /\ qco' = [qco EXCEPT ![c].pc = "yield"]
            /\ UNCHANGED <<qcur, qpool, future2channel, queue>>
    /\ UNCHANGED <<qnextId, qtask, notifier, avars>>

(* new_yield of core.rs: pop_wait on the active queue, which takes an item *)
(* at once when the queue holds one and suspends the coroutine when it is  *)
(* empty; msleep(1) when the slot is nil.                                  *)
QYield(c) ==
    /\ qcur = c
    /\ qco[c].pc = "yield"
    /\ IF achan = NoQueue
       THEN /\ qco' = [qco EXCEPT ![c].pc = "sleep", ![c].wq = NoQueue]
            /\ qcur' = NoCor
            /\ UNCHANGED queue
       ELSE IF queue[achan] > 0
       THEN /\ queue' = [queue EXCEPT ![achan] = @ - 1]
            /\ qco' = [qco EXCEPT ![c].pc = "poll", ![c].wq = achan,
                                  ![c].woke = "item"]
            /\ UNCHANGED qcur
       ELSE /\ qco' = [qco EXCEPT ![c].pc = "wait", ![c].wq = achan]
            /\ qcur' = NoCor
            /\ UNCHANGED queue
    /\ UNCHANGED <<achan, qpool, qnextId, future2channel, qtask, notifier, avars>>

(* The host resumes a suspended coroutine: pop_wait returns with an item of *)
(* the queue it waits on, or msleep(1) is over.  The coroutine polls again. *)
QResume(c) ==
    /\ qcur = NoCor
    /\ IF qco[c].pc = "wait"
       THEN /\ qco[c].wq \in DOMAIN queue
            /\ queue[qco[c].wq] > 0
            /\ queue' = [queue EXCEPT ![qco[c].wq] = @ - 1]
            /\ qco' = [qco EXCEPT ![c].pc = "poll", ![c].woke = "item"]
       ELSE /\ qco[c].pc = "sleep"
            /\ qco' = [qco EXCEPT ![c].pc = "poll", ![c].woke = "timer"]
            /\ UNCHANGED queue
    /\ qcur' = c
    /\ UNCHANGED <<achan, qpool, qnextId, future2channel, qtask, notifier, avars>>

(* The spawned task: the operation resolves and the id is sent to the      *)
(* notification task; the send waits while the channel is full.            *)
QTaskNotify(t) ==
    /\ qtask[t].st = "running"
    /\ Len(notifier.chan) < NOTIFIER_CAPACITY
    /\ \E out \in {"ok", "err"} :
         qtask' = [qtask EXCEPT ![t].st = "notified", ![t].out = out]
    /\ notifier' = [notifier EXCEPT !.chan = Append(@, qtask[t].id)]
    /\ UNCHANGED <<qcur, qco, achan, qpool, qnextId, future2channel, queue, avars>>

(* The spawned task returns its result: the join handle resolves *)
QTaskFinish(t) ==
    /\ qtask[t].st = "notified"
    /\ qtask' = [qtask EXCEPT ![t].st = "finished"]
    /\ UNCHANGED <<qcur, qco, achan, qpool, qnextId, future2channel, queue, notifier,
                   avars>>

(* The watcher task of the host connects and the notification task accepts *)
WatcherConnect ==
    /\ qcur = NoCor
    /\ notifier.st = "bound"
    /\ notifier' = [notifier EXCEPT !.st = "connected", !.srv = "stream"]
    /\ UNCHANGED <<qcur, qco, achan, qpool, qnextId, future2channel, queue, qtask, avars>>

(* The notification task: an id of the channel is written as a line *)
NotifyForward ==
    /\ notifier.st = "connected"
    /\ notifier.chan # <<>>
    /\ notifier' = [notifier EXCEPT !.chan = Tail(@),
                                    !.stream = Append(@, ToDecimal(Head(notifier.chan)))]
    /\ UNCHANGED <<qcur, qco, achan, qpool, qnextId, future2channel, queue, qtask, avars>>

(* The watcher task: socket:receive("*l") and future_wake_up of the line *)
WatcherWakeUp ==
    /\ qcur = NoCor
    /\ notifier.st = "connected"
    /\ notifier.stream # <<>>
    /\ queue' = future_wake_up(future2channel, queue, Head(notifier.stream))
    /\ notifier' = [notifier EXCEPT !.stream = Tail(@)]
    /\ UNCHANGED <<qcur, qco, achan, qpool, qnextId, future2channel, qtask, avars>>

----------------------------------------------------------------------------
HostNext ==
    \/ \E c \in Cor : Call(c)
    \/ \E c \in Cor : Poll(c)
    \/ \E c \in Cor : YieldEnter(c)
    \/ \E c \in Cor : ConnectDone(c)
    \/ \E c \in Cor : SendDone(c)
    \/ \E c \in Cor : RecvDone(c)
    \/ \E c \in Cor : SleepDone(c)
    \/ \E c \in Cor : CooldownDone(c)

TokioNext ==
    \/ ListenerBind
    \/ \E t \in DOMAIN task : TaskSignal(t)
    \/ \E t \in DOMAIN task : TaskFinish(t)
    \/ \E s \in DOMAIN sk : SrvRead(s)
    \/ \E s \in DOMAIN sk : SrvReady(s)

(* A connection task meets the end of its stream.  It needs a connection  *)
(* that was closed or reset: a fault, or a check-in into a full pool.     *)
HangupNext == \E s \in DOMAIN sk : SrvEof(s)

FaultNext ==
    \/ \E s \in DOMAIN sk : Fault(s)
    \/ \E c \in Cor : ConnectRefused(c)

ProbeNext ==
    \/ ProbeConnect
    \/ \E line \in ProbeLines : ProbeSend(line)
    \/ ProbeRecv

(* The bridge with an unreliable loopback *)
Next == HostNext \/ TokioNext \/ HangupNext \/ FaultNext

Spec == Init /\ [][Next]_vars

(* The bridge with a foreign client on the notification port *)
NextProbe == HostNext \/ TokioNext \/ ProbeNext

ProbeSpec == Init /\ [][NextProbe]_vars

(* The bridge on a reliable loopback, with a fair host scheduler and a fair *)
(* tokio runtime: a resumable coroutine is resumed, a runnable task runs.    *)
NextFair == HostNext \/ TokioNext

AllTasks == 1..(NumCor * MaxCalls)

AllSocks == 1..NumCor

Fairness ==
    /\ \A c \in Cor :
         /\ WF_vars(Poll(c)) /\ WF_vars(YieldEnter(c)) /\ WF_vars(ConnectDone(c))
         /\ WF_vars(SendDone(c)) /\ WF_vars(RecvDone(c)) /\ WF_vars(SleepDone(c))
         /\ WF_vars(CooldownDone(c))
    /\ WF_vars(ListenerBind)
    /\ \A t \in AllTasks : WF_vars(TaskSignal(t)) /\ WF_vars(TaskFinish(t))
    /\ \A s \in AllSocks : WF_vars(SrvRead(s)) /\ WF_vars(SrvReady(s))

FairSpec == Init /\ [][NextFair]_vars /\ Fairness

(* The threads of the process that call runtime() *)
RuntimeNext ==
    \/ \E th \in Thr : RuntimeGet(th)
    \/ \E th \in Thr : OnceCall(th)
    \/ \E th \in Thr : BuildDone(th)

RuntimeSpec == Init /\ [][RuntimeNext]_vars

(* The load of the module: a fresh Lua state and the registrations *)
RegInit == BridgeInit /\ lua = FreshLua

RegNext ==
    \E failNew \in NewFailures, failCreate \in BOOLEAN, failDrop \in DropFailures :
        CreateAsyncFunction(failNew, failCreate, failDrop)

RegSpec == RegInit /\ [][RegNext]_vars

(* A loaded worker: more than PER_WORKER_POOL_SIZE coroutines were waiting *)
(* at once, all but the last NumCor have got READY and checked their       *)
(* sockets in.  The id counter is about to wrap.                           *)
BurstId(c) == (FutureIdModulus - 2 + c) % FutureIdModulus

BurstSock(n, c) == n + c

BurstInit ==
    \E n \in {PER_WORKER_POOL_SIZE - 1, PER_WORKER_POOL_SIZE} :
        /\ cur = NoCor
        /\ co = [c \in Cor |->
                   [IdleCo EXCEPT !.pc = "receive", !.id = BurstId(c),
                                  !.fid = BurstId(c), !.sock = BurstSock(n, c),
                                  !.task = c, !.calls = 1]]
        /\ active = BurstId(NumCor)
        /\ pool = [i \in 1..n |-> i]
        /\ nextId = (BurstId(NumCor) + 1) % FutureIdModulus
        /\ watcher = "listening"
        /\ rxmap = [i \in {BurstId(c) : c \in Cor \ {1}} |->
                      CHOOSE c \in Cor : BurstId(c) = i]
        /\ task = [c \in Cor |-> [st |-> "running", out |-> "none",
                                  id |-> BurstId(c), owner |-> c,
                                  ready |-> 0]]
        /\ sk = [s \in 1..(n + NumCor) |->
                   IF s <= n
                   THEN [NewSocket EXCEPT !.st = "open", !.srv = "reading"]
                   ELSE IF s = BurstSock(n, 1)
                   THEN [NewSocket EXCEPT !.st = "open", !.srv = "waiting",
                                          !.wait = 1, !.wid = BurstId(1)]
                   ELSE [NewSocket EXCEPT !.st = "open", !.srv = "reading",
                                          !.req = <<ToDecimal(BurstId(s - n))>>]]
        /\ faults = 0
        /\ probe = [sent |-> 0, got |-> <<>>]
        /\ lua = LoadedLua
        /\ rt = RuntimeInit
        /\ np = PortInit
        /\ issued = NoneIssued
        /\ QueueInit

BurstNext ==
    \/ \E c \in Cor : Poll(c)
    \/ \E c \in Cor : YieldEnter(c)
    \/ \E c \in Cor : SendDone(c)
    \/ \E c \in Cor : RecvDone(c)
    \/ \E c \in Cor : CooldownDone(c)
    \/ \E t \in DOMAIN task : TaskSignal(t)
    \/ \E t \in DOMAIN task : TaskFinish(t)
    \/ \E s \in DOMAIN sk : SrvRead(s)
    \/ \E s \in DOMAIN sk : SrvReady(s)
    \/ \E s \in DOMAIN sk : SrvEof(s)

BurstSpec == BurstInit /\ [][BurstNext]_vars

----------------------------------------------------------------------------
(* The id counter on its own: allocations in a row, through the wrap *)

(* The allocations made before the run starts: none, or all but the last *)
(* few before the counter wraps                                          *)
IdStarts == {0, FutureIdModulus - 4}

(* The history after k allocations, k below the size of the id space *)
IssuedAfter(k) ==
    IF k = 0 THEN NoneIssued ELSE [n |-> k, last |-> k, ids |-> {<<1, k>>}]

IdInit ==
    \E k \in IdStarts :
        /\ nextId = k + 1
        /\ issued = IssuedAfter(k)
        /\ watcher = IF k = 0 THEN "none" ELSE "listening"
        /\ cur = NoCor
        /\ co = [c \in Cor |-> IdleCo]
        /\ active = NoId
        /\ pool = <<>>
        /\ rxmap = <<>>
        /\ task = <<>>
        /\ sk = <<>>
        /\ faults = 0
        /\ probe = [sent |-> 0, got |-> <<>>]
        /\ lua = LoadedLua
        /\ rt = RuntimeInit
        /\ np = PortInit
        /\ QueueInit

IdSpec == IdInit /\ [][Allocate]_vars

----------------------------------------------------------------------------
(* The queue variant on its own *)

QueueHostNext ==
    \/ \E c \in Cor : QCall(c)
    \/ \E c \in Cor : QPoll(c)
    \/ \E c \in Cor : QYield(c)
    \/ \E c \in Cor : QResume(c)
    \/ WatcherConnect
    \/ WatcherWakeUp

QueueTokioNext ==
    \/ \E t \in DOMAIN qtask : QTaskNotify(t)
    \/ \E t \in DOMAIN qtask : QTaskFinish(t)
    \/ NotifyForward

QueueNext == QueueHostNext \/ QueueTokioNext

QueueSpec == Init /\ [][QueueNext]_vars

(* The queue variant after a burst of calls: the pool of queues is full or *)
(* one short of it, and every coroutine waits in pop_wait on a queue of    *)
(* its own for a task that is still running.                               *)

QBurstInit ==
    /\ LoopbackInit
    /\ lua = LoadedLua
    /\ \E n \in {POOL_MAX_SIZE - 1, POOL_MAX_SIZE} :
        /\ qcur = NoCor
        /\ qco = [c \in Cor |->
                    [QIdleCo EXCEPT !.pc = "wait", !.id = n + c, !.chan = n + c,
                                    !.wq = n + c, !.task = c, !.calls = MaxCalls]]
        /\ achan = n + NumCor
        /\ qpool = [i \in 1..n |-> i]
        /\ qnextId = n + NumCor + 1
        /\ future2channel = [i \in {n + c : c \in Cor} |-> i]
        /\ queue = [q \in 1..(n + NumCor) |-> 0]
        /\ qtask = [c \in Cor |-> [st |-> "running", out |-> "none",
                                    id |-> n + c, owner |-> c]]
        /\ notifier = [NoNotifier EXCEPT !.st = "connected", !.srv = "stream"]

QBurstNext ==
    \/ \E c \in Cor : QPoll(c)
    \/ \E c \in Cor : QYield(c)
    \/ \E c \in Cor : QResume(c)
    \/ \E t \in DOMAIN qtask : QTaskNotify(t)
    \/ \E t \in DOMAIN qtask : QTaskFinish(t)
    \/ NotifyForward
    \/ WatcherWakeUp

QBurstSpec == QBurstInit /\ [][QBurstNext]_vars

----------------------------------------------------------------------------
(* A build holds one variant of the bridge, so a behaviour runs the        *)
(* loopback variant or the queue variant: the steps of one are taken while *)
(* the other has made no call.                                             *)
OneVariantNext ==
    \/ qnextId = 1 /\ Next
    \/ nextId = 1 /\ QueueNext

VariantSpec == Init /\ [][OneVariantNext]_vars

----------------------------------------------------------------------------
(* An abandonment that aborts the task with the join handle *)
AbandonAborts(c) ==
    /\ cur = NoCor
    /\ co[c].pc \in {"connect", "send", "receive", "sleep", "cooldown"}
    /\ co' = [co EXCEPT ![c] = [IdleCo EXCEPT !.pc = "dead", !.calls = co[c].calls,
                                              !.ret = co[c].ret]]
    /\ task' = [task EXCEPT ![co[c].task].owner = NoCor,
                            ![co[c].task].st = "aborted"]
    /\ LET s == co[c].sock
       IN  IF s = NoSock THEN UNCHANGED sk
           ELSE IF sk[s].st = "new" THEN sk' = Remove(sk, s)
           ELSE \E collected \in BOOLEAN :
                   sk' = IF collected THEN CloseSock(sk, s) ELSE sk
    /\ UNCHANGED <<cur, active, pool, nextId, watcher, rxmap, faults, probe, lua, rt,
                   issued, np, qvars>>

(* The host abandons a suspended coroutine (its stream ended or its time   *)
(* ran out): the Lua thread is collected and with it the future and its    *)
(* join handle.  Dropping a join handle detaches the task.  The socket the *)
(* coroutine held is closed when the collector gets to it.                 *)
Abandon(c) ==
    /\ cur = NoCor
    /\ co[c].pc \in {"connect", "send", "receive", "sleep", "cooldown"}
    /\ co' = [co EXCEPT ![c] = [IdleCo EXCEPT !.pc = "dead", !.calls = co[c].calls,
                                              !.ret = co[c].ret]]
    /\ task' = [task EXCEPT ![co[c].task].owner = NoCor]
    /\ LET s == co[c].sock
       IN  IF s = NoSock THEN UNCHANGED sk
           ELSE IF sk[s].st = "new" THEN sk' = Remove(sk, s)
           ELSE \E collected \in BOOLEAN :
                   sk' = IF collected THEN CloseSock(sk, s) ELSE sk
    /\ UNCHANGED <<cur, active, pool, nextId, watcher, rxmap, faults, probe, lua, rt,
                   issued, np, qvars>>

(* A worker whose id counter has gone once around: the call that had id k  *)
(* is over, and the next call gets k again.  The earlier call was either   *)
(* collected in full (its entry taken by a subscribe that was answered     *)
(* READY, its result returned, its socket checked in) or abandoned before  *)
(* it subscribed (its entry is still in the registry).                     *)
ReuseIds == {0, FutureIdModulus - 1}

ReuseInit ==
    \E k \in ReuseIds, collected \in BOOLEAN, st \in {"running", "finished"} :
        /\ collected => st = "finished"
        /\ cur = NoCor
        /\ co = [c \in Cor |-> IdleCo]
        /\ active = k
        /\ pool = IF collected THEN <<1>> ELSE <<>>
        /\ nextId = k
        /\ watcher = "listening"
        /\ rxmap = IF collected THEN <<>> ELSE [i \in {k} |-> 1]
        /\ task = <<[st |-> st, out |-> IF st = "finished" THEN "ok" ELSE "none",
                     id |-> k, owner |-> NoCor,
                     ready |-> IF collected THEN 1 ELSE 0]>>
        /\ sk = IF collected
                THEN [s \in {1} |-> [NewSocket EXCEPT !.st = "open", !.srv = "reading"]]
                ELSE <<>>
        /\ faults = 0
        /\ probe = [sent |-> 0, got |-> <<>>]
        /\ lua = LoadedLua
        /\ rt = RuntimeInit
        /\ np = PortInit
        /\ issued = NoneIssued
        /\ QueueInit

ReuseNext ==
    \/ \E c \in Cor : Call(c)
    \/ \E c \in Cor : Poll(c)
    \/ \E c \in Cor : YieldEnter(c)
    \/ \E c \in Cor : ConnectDone(c)
    \/ \E c \in Cor : SendDone(c)
    \/ \E c \in Cor : RecvDone(c)
    \/ \E c \in Cor : CooldownDone(c)
    \/ \E c \in Cor : Abandon(c)
    \/ \E t \in DOMAIN task : TaskSignal(t)
    \/ \E t \in DOMAIN task : TaskFinish(t)
    \/ \E s \in DOMAIN sk : SrvRead(s)
    \/ \E s \in DOMAIN sk : SrvReady(s)
    \/ \E s \in DOMAIN sk : SrvEof(s)

ReuseTasks == 1..(NumCor * MaxCalls + 1)

(* The tokio runtime runs every spawned task, attached or detached *)
ReuseSpec ==
    /\ ReuseInit
    /\ [][ReuseNext]_vars
    /\ \A t \in ReuseTasks : WF_vars(TaskSignal(t)) /\ WF_vars(TaskFinish(t))

----------------------------------------------------------------------------
(* An outage of the notification server while tasks are in flight: it     *)
(* drops every connection (the connection tasks end, with the receivers    *)
(* they hold and the lines in flight) and connects are refused until the   *)
(* listener accepts again.                                                 *)
Outage ==
    /\ watcher = "listening"
    /\ faults < MaxFaults
    /\ \E c \in Cor : co[c].pc # "idle"
    /\ faults' = faults + 1
    /\ watcher' = "stalled"
    /\ sk' = [s \in {x \in DOMAIN sk : sk[x].st # "closed"} |->
                IF sk[s].st = "open"
                THEN [NewSocket EXCEPT !.st = "broken", !.srv = "ended"]
                ELSE sk[s]]
    /\ UNCHANGED <<cur, co, active, pool, nextId, rxmap, task, probe, lua, rt,
                   issued, np, qvars>>

(* The listener accepts again *)
Recover ==
    /\ watcher = "stalled"
    /\ watcher' = "listening"
    /\ UNCHANGED <<cur, co, active, pool, nextId, rxmap, task, sk, faults, probe, lua, rt,
                   issued, np, qvars>>

(* A worker in mid-flight: one connection rests in the pool, coroutine 1   *)
(* has subscribed and its connection task holds the receiver, the others   *)
(* have their subscribe on the way.                                        *)
OutageInit ==
    /\ cur = NoCor
    /\ co = [c \in Cor |->
               [IdleCo EXCEPT !.pc = "receive", !.id = c, !.fid = c,
                              !.sock = c + 1, !.task = c, !.calls = 1]]
    /\ active = NumCor
    /\ pool = <<1>>
    /\ nextId = NumCor + 1
    /\ watcher = "listening"
    /\ rxmap = [i \in Cor \ {1} |-> i]
    /\ task = [c \in Cor |-> [st |-> "running", out |-> "none", id |-> c,
                              owner |-> c, ready |-> 0]]
    /\ sk = [s \in 1..(NumCor + 1) |->
               IF s = 1 THEN [NewSocket EXCEPT !.st = "open", !.srv = "reading"]
               ELSE IF s = 2
               THEN [NewSocket EXCEPT !.st = "open", !.srv = "waiting",
                                      !.wait = 1, !.wid = 1]
               ELSE [NewSocket EXCEPT !.st = "open", !.srv = "reading",
                                      !.req = <<ToDecimal(s - 1)>>]]
    /\ faults = 0
    /\ probe = [sent |-> 0, got |-> <<>>]
    /\ lua = LoadedLua
    /\ rt = RuntimeInit
    /\ np = PortInit
    /\ issued = NoneIssued
    /\ QueueInit

OutageNext ==
    \/ \E c \in Cor : Poll(c)
    \/ \E c \in Cor : YieldEnter(c)
    \/ \E c \in Cor : ConnectDone(c)
    \/ \E c \in Cor : SendDone(c)
    \/ \E c \in Cor : RecvDone(c)
    \/ \E c \in Cor : SleepDone(c)
    \/ \E c \in Cor : CooldownDone(c)
    \/ \E t \in DOMAIN task : TaskSignal(t)
    \/ \E t \in DOMAIN task : TaskFinish(t)
    \/ \E s \in DOMAIN sk : SrvRead(s)
    \/ \E s \in DOMAIN sk : SrvReady(s)
    \/ Outage
    \/ Recover

(* Sockets of a run with an outage: the reset ones and their replacements *)
OutageSocks == 1..(2 * NumCor + 2)

(* The bridge through an outage, with a fair host and a fair runtime, and  *)
(* a listener that comes back                                              *)
OutageSpec ==
    /\ OutageInit
    /\ [][OutageNext]_vars
    /\ Fairness
    /\ WF_vars(Recover)
    /\ \A s \in OutageSocks : WF_vars(SrvRead(s)) /\ WF_vars(SrvReady(s))

----------------------------------------------------------------------------
(* TcpListener::bind fails in the notification task (the port found by     *)
(* get_notification_port was taken meanwhile): the panic unwinds the       *)
(* spawned task only, and WATCHER stays initialised.                       *)
ListenerPanics ==
    /\ watcher = "spawned"
    /\ watcher' = "panicked"
    /\ UNCHANGED <<cur, co, active, pool, nextId, rxmap, task, sk, faults, probe, lua, rt,
                   issued, np, qvars>>

(* The bridge whose listener may fail to bind *)
NextBindFail == HostNext \/ TokioNext \/ ListenerPanics

BindFailSpec == Init /\ [][NextBindFail]_vars

----------------------------------------------------------------------------
(* Properties *)

(* The connection task of s takes a subscribe line for `future_id` in this step *)
TakesSubscribe(s, future_id) ==
    /\ s \in DOMAIN sk
    /\ sk[s].srv = "reading"
    /\ sk[s].req # <<>>
    /\ ParseFutureId(Trim(Head(sk[s].req))) = future_id
    /\ future_id # NoId
    /\ \/ s \notin DOMAIN sk' /\ sk[s].st = "closed"
       \/ /\ s \in DOMAIN sk'
          /\ sk'[s].req = Tail(sk[s].req)
          /\ sk'[s].st = sk[s].st

(* ... and answers it at once with `resp`, if the connection is alive *)
AnswersAtOnce(s, resp) ==
    sk[s].st = "open" =>
        /\ sk'[s].rep = Append(sk[s].rep, resp)
        /\ sk'[s].srv = "reading"

IdsInUse == {task[t].id : t \in DOMAIN task} \cup {1, 2}

(* C1: per registration of a task id at most one subscribe request is     *)
(* answered READY; a request for an id that has no entry (never registered, *)
(* or consumed and not registered again) is answered ERR, whichever        *)
(* connection it comes from.                                               *)
C1_ReadyAtMostOnce ==
    /\ [](\A t \in DOMAIN task : task[t].ready <= 1)
    /\ [][\A s \in DOMAIN sk : \A i \in IdsInUse :
            (TakesSubscribe(s, i) /\ i \notin DOMAIN rxmap)
                => (AnswersAtOnce(s, "ERR") /\ rxmap' = rxmap)]_vars

(* C1 witness: READY was answered for a task and a later request of the   *)
(* owner for the same id got ERR                                          *)
C1_Witness ==
    \E c \in Cor :
        /\ co[c].woke = "ERR"
        /\ co[c].task # 0
        /\ task[co[c].task].ready = 1

----------------------------------------------------------------------------
(* What a call has returned so far is the output of tasks it spawned itself *)
OwnResults(c) ==
    \A i \in 1..Len(co[c].ret) :
        LET r == co[c].ret[i]
        IN  IF r.task = 0 THEN r.out = "argerr"
            ELSE /\ r.task \in DOMAIN task
                 /\ task[r.task].owner = c
                 /\ task[r.task].st = "finished"
                 /\ r.out = task[r.task].out
                 /\ r.out \in {"ok", "err"}
                 /\ \A j \in 1..Len(co[c].ret) :
                        j # i => co[c].ret[j].task # r.task

ReturnsOncePerCall(c) ==
    /\ Len(co[c].ret) <= co[c].calls
    /\ co[c].pc = "idle" <=> Len(co[c].ret) = co[c].calls

C2_Safe ==
    /\ \A c \in Cor : OwnResults(c) /\ ReturnsOncePerCall(c)
    /\ Len(pool) <= PER_WORKER_POOL_SIZE

(* C2: with a fair host and a fair runtime every call that was issued      *)
(* returns to its coroutine, once per call and with the output of its own  *)
(* operation, and the pool stays within its capacity.                      *)
C2_EveryCallReturns ==
    /\ \A c \in Cor : (co[c].pc # "idle") ~> (co[c].pc = "idle")
    /\ []C2_Safe

(* C2 witness: all coroutines have called concurrently and have their results *)
C2_Witness ==
    /\ \A c \in Cor :
          /\ co[c].pc = "idle"
          /\ co[c].calls = MaxCalls
          /\ Len(co[c].ret) = MaxCalls
          /\ co[c].ret[1].task # 0
    /\ \A c, d \in Cor : c # d => co[d].ret[1].task # co[c].ret[1].task

(* C3: the poll that follows a resume by READY returns Ready: the coroutine *)
(* leaves "poll" with the result, it does not go back into the yield.       *)
C3_ReadyAfterNotify ==
    [][\A c \in Cor :
          (co[c].pc = "poll" /\ co[c].woke = "READY" /\ co'[c].pc # "poll")
              => co'[c].pc = "idle"]_vars

----------------------------------------------------------------------------
(* Coroutine c hands its socket back at the end of new_yield in this step *)
ChecksIn(c) ==
    /\ co[c].pc \in {"receive", "cooldown"}
    /\ co[c].sock # NoSock
    /\ co'[c].pc = "poll"

SockClosed(socks, s) == s \notin DOMAIN socks \/ socks[s].st = "closed"

InPool(p, s) == \E i \in 1..Len(p) : p[i] = s

(* C4: the pool never holds more than PER_WORKER_POOL_SIZE connections; a   *)
(* put on a full pool leaves it unchanged and the client closes the socket; *)
(* a put on a pool with room appends exactly that socket, which stays open. *)
C4_PoolBounded ==
    /\ [](Len(pool) <= PER_WORKER_POOL_SIZE)
    /\ [][\A c \in Cor :
            ChecksIn(c) =>
                IF Len(pool) = PER_WORKER_POOL_SIZE
                THEN pool' = pool /\ SockClosed(sk', co[c].sock)
                ELSE /\ pool' = Append(pool, co[c].sock)
                     /\ ~SockClosed(sk', co[c].sock)]_vars

(* C4 witness: the pool is full and a socket it refused has been closed *)
C4_Witness ==
    /\ Len(pool) = PER_WORKER_POOL_SIZE
    /\ \E s \in DOMAIN sk : sk[s].st = "closed"
    /\ \E c \in Cor : co[c].pc = "poll" /\ co[c].sock = NoSock

----------------------------------------------------------------------------
IoErrors == {"connect_err", "send_err", "recv_err"}

(* C5: a failed connect, send or receive is not visible to the script: the  *)
(* yield has returned normally (the coroutine sleeps its cooldown or polls  *)
(* again, the call is still in progress), and whatever a call returns is    *)
(* the output of its own operation.                                         *)
C5_TransportFailureInvisible ==
    \A c \in Cor :
        /\ co[c].woke \in IoErrors =>
              /\ co[c].pc \in {"sleep", "poll"}
              /\ co[c].task # 0
              /\ Len(co[c].ret) < co[c].calls
        /\ OwnResults(c)

(* C5 witness: a call is polled again after a failed receive and its       *)
(* operation has finished, so this poll returns the operation's output     *)
C5_Witness ==
    \E c \in Cor :
        /\ co[c].pc = "poll"
        /\ co[c].woke = "recv_err"
        /\ PollReady(c)

(* The socket operation coroutine c waits for fails in this step *)
IoFails(c) ==
    /\ co'[c] # co[c]
    /\ \/ co[c].pc = "connect" /\ (watcher # "listening" \/ faults' # faults)
       \/ /\ co[c].pc = "send"
          /\ sk[co[c].sock].st = "broken"
          /\ co'[c].pc # "receive"
       \/ co[c].pc = "receive" /\ sk[co[c].sock].rep = <<>>

C7_ErrDiscardsConnection ==
    [][\A c \in Cor :
          (co[c].pc = "cooldown" /\ co[c].woke = "ERR" /\ co'[c].pc = "poll")
              => ~InPool(pool', co[c].sock)]_vars

(* C7: on the reply ERR the client keeps the connection, sleeps 1 ms with  *)
(* it, checks it back into the pool and retries the wait for the same id   *)
(* on the next yield.                                                      *)
C7_ErrReplyRetries ==
    [][\A c \in Cor :
          /\ ( /\ co[c].pc = "receive"
               /\ sk[co[c].sock].rep # <<>>
               /\ Head(sk[co[c].sock].rep) = "ERR"
               /\ co'[c] # co[c] ) =>
                  /\ co'[c].pc = "cooldown"
                  /\ co'[c].timer = COOLDOWN_MS
                  /\ co'[c].sock = co[c].sock
                  /\ ~SockClosed(sk', co[c].sock)
                  /\ sk'[co[c].sock].st = sk[co[c].sock].st
                  /\ pool' = pool
          /\ (co[c].pc = "cooldown" /\ co'[c] # co[c]) =>
                  /\ co'[c].pc = "poll"
                  /\ co'[c].id = co[c].id /\ co'[c].task = co[c].task
                  /\ Len(pool) < PER_WORKER_POOL_SIZE =>
                        pool' = Append(pool, co[c].sock)
          /\ (co[c].pc = "yield" /\ co'[c] # co[c]) =>
                  co'[c].fid = co[c].id]_vars

(* C7 witness: after ERR and the cooldown the connection is back in the pool *)
C7_Witness ==
    \E c \in Cor :
        /\ co[c].pc = "poll"
        /\ co[c].woke = "ERR"
        /\ pool # <<>>

----------------------------------------------------------------------------
(* The connection task of s takes a PING line in this step *)
TakesPing(s) ==
    /\ s \in DOMAIN sk
    /\ sk[s].srv = "reading"
    /\ sk[s].req # <<>>
    /\ Trim(Head(sk[s].req)) = PING
    /\ sk[s].st = "open"
    /\ s \in DOMAIN sk'
    /\ sk'[s].req = Tail(sk[s].req)
    /\ sk'[s].st = sk[s].st

(* C8: a PING read on a live connection is answered with exactly one PONG  *)
(* on that connection; the registry, the tasks and every other connection  *)
(* are as before, and the connection task goes on reading.                 *)
C8_PingPong ==
    [][\A s \in DOMAIN sk :
          TakesPing(s) =>
              /\ sk'[s] = [sk[s] EXCEPT !.req = Tail(@), !.rep = Append(@, "PONG")]
              /\ \A o \in DOMAIN sk \ {s} : o \in DOMAIN sk' /\ sk'[o] = sk[o]
              /\ DOMAIN sk' = DOMAIN sk
              /\ rxmap' = rxmap
              /\ task' = task]_vars

(* C8 witness: the client got PONG and then another reply on the connection *)
C8_Witness ==
    /\ Len(probe.got) = 2
    /\ probe.got[1] = "PONG"
    /\ probe.got[2] \in {"READY", "ERR"}

(* C9: a subscribe for an id with a live entry takes the entry and is not  *)
(* answered in that step; READY is written only by a connection task that  *)
(* holds the receiver registered for the id it was asked for and whose     *)
(* task has sent its signal; a subscribe for an id without entry is        *)
(* answered ERR at once.                                                   *)
C9_ReadyAfterSignal ==
    /\ [](\A t \in DOMAIN task : task[t].ready > 0 => Fired(t))
    /\ [][\A s \in DOMAIN sk :
            /\ (s \in DOMAIN sk' /\ sk'[s].rep = Append(sk[s].rep, "READY")) =>
                  /\ sk[s].srv = "waiting"
                  /\ Fired(sk[s].wait)
                  /\ task[sk[s].wait].id = sk[s].wid
            /\ \A i \in IdsInUse :
                  TakesSubscribe(s, i) =>
                      IF i \in DOMAIN rxmap
                      THEN /\ sk'[s].rep = sk[s].rep
                           /\ sk'[s].srv = "waiting"
                           /\ sk'[s].wait = rxmap[i]
                           /\ i \notin DOMAIN rxmap'
                      ELSE AnswersAtOnce(s, "ERR")]_vars

(* C9 witness: a coroutine was woken by READY, and another connection task *)
(* still waits without a reply for a task that has not signalled           *)
C9_Witness ==
    /\ \E c \in Cor : co[c].woke = "READY"
    /\ \E s \in DOMAIN sk :
          sk[s].srv = "waiting" /\ ~Fired(sk[s].wait) /\ sk[s].rep = <<>>

(* C10 as claimed: after create_async_function coroutine.yield is what it  *)
(* was before the call, whatever failed                                    *)
C10_YieldAlwaysRestored ==
    lua.nreg > 0 => lua.yield = lua.last.before

(* C10: after create_async_function coroutine.yield is what it was before  *)
(* the call unless the restoration itself failed; the guard, if it was     *)
(* made, restores once; a failed restoration is printed and changes        *)
(* nothing in the result; without a guard coroutine.yield was not touched. *)
C10_YieldRestored ==
    lua.nreg > 0 =>
        /\ lua.last.failDrop = "none" => lua.yield = lua.last.before
        /\ lua.last.guard <=> lua.last.failNew = "none"
        /\ lua.last.restores = (IF lua.last.guard THEN 1 ELSE 0)
        /\ lua.last.printed <=> lua.last.failDrop # "none"
        /\ lua.last.failDrop # "none" => lua.yield = lua.nreg
        /\ lua.last.res = "err" <=> (lua.last.failNew # "none" \/ lua.last.failCreate)

(* C10 witness: a later call whose mlua create step failed has restored    *)
(* the yield that an earlier call with a failed restoration had left       *)
C10_Witness ==
    /\ lua.nreg >= 2
    /\ lua.last.guard
    /\ lua.last.failCreate
    /\ lua.last.failDrop = "none"
    /\ lua.last.before # 0
    /\ lua.yield = lua.last.before

----------------------------------------------------------------------------
(* C19: the tokio runtime is built once for the process: the builder never *)
(* runs on two threads at a time, at most one build completes (and the     *)
(* builder runs once when no build fails), every caller that returns from  *)
(* runtime() holds the one runtime in the cell, and a set cell stays set   *)
(* with the same runtime.                                                  *)
C19_RuntimeBuiltOnce ==
    /\ [](/\ rt.built <= 1
          /\ Cardinality({th \in Thr : rt.thr[th].pc = "build"}) <= 1
          /\ rt.fails = 0 => rt.runs <= 1
          /\ (rt.once = "complete") <=> (rt.cell # 0)
          /\ \A th \in Thr :
                rt.thr[th].got # 0 => rt.thr[th].got = rt.cell
          /\ \A th \in Thr :
                (rt.thr[th].pc = "out" /\ rt.thr[th].calls > 0)
                    => rt.thr[th].got # 0)
    /\ [][rt.cell # 0 => rt'.cell = rt.cell]_vars

(* C19 witness: threads raced into the Once, one of them built the runtime *)
(* and all of them have returned with it, some from a second call          *)
C19_Witness ==
    /\ rt.built = 1
    /\ rt.fails = 0
    /\ \A th \in Thr : rt.thr[th].pc = "out" /\ rt.thr[th].got = rt.cell
    /\ \E th \in Thr : rt.thr[th].calls = MaxRtCalls
    /\ Cardinality({th \in Thr : rt.thr[th].calls = 1}) >= 2

----------------------------------------------------------------------------
(* The tasks that were given the id of an older task *)
ReusesId(t) == \E u \in DOMAIN task : u < t /\ task[u].id = task[t].id

(* C11: a call that got the id of an earlier, fully collected call returns *)
(* the output of its own task only; the connection task that serves its    *)
(* subscribe waits for its own task's receiver, and it is resumed by READY *)
(* only after its own task has sent the signal.                            *)
C11_NoCrossDelivery ==
    \A c \in Cor :
        /\ \A i \in 1..Len(co[c].ret) :
              LET r == co[c].ret[i]
              IN  r.task # 0 =>
                     /\ task[r.task].owner = c
                     /\ task[r.task].st = "finished"
                     /\ r.out = task[r.task].out
        /\ (co[c].pc = "receive" /\ co[c].sock \in DOMAIN sk
               /\ sk[co[c].sock].srv = "waiting")
              => sk[co[c].sock].wait = co[c].task
        /\ co[c].woke = "READY" => Fired(co[c].task)

(* C11 witness: the earlier call was collected in full, and a call that    *)
(* got its id was answered READY and has returned its own result           *)
C11_Witness ==
    /\ task[1].ready = 1
    /\ \E c \in Cor :
          /\ Len(co[c].ret) = 1
          /\ co[c].ret[1].task > 1
          /\ ReusesId(co[c].ret[1].task)
          /\ task[co[c].ret[1].task].ready = 1
          /\ co[c].ret[1].out = "err"

----------------------------------------------------------------------------
(* The connections of the client that the outage has reset *)
StaleSocks(socks) == {s \in DOMAIN socks : socks[s].st = "broken"}

(* C12: through an outage of the notification server every call still      *)
(* returns, with the output of its own task, once the listener accepts     *)
(* again; only the outage makes connections stale, a connect fails only    *)
(* while the listener does not accept, and every failed send or receive    *)
(* takes one stale connection out of circulation (it is closed and not put *)
(* back into the pool), so the failed yields after the outage are bounded  *)
(* by the number of stale connections.                                     *)
C12_RecoversFromOutage ==
    /\ <>[](\A c \in Cor : co[c].pc = "idle" /\ Len(co[c].ret) = co[c].calls)
    /\ [](\A c \in Cor : OwnResults(c))
    /\ [][/\ Cardinality(StaleSocks(sk')) > Cardinality(StaleSocks(sk))
               => faults' > faults
          /\ \A c \in Cor :
                IoFails(c) =>
                    IF co[c].pc = "connect" THEN watcher # "listening"
                    ELSE /\ co[c].sock \in StaleSocks(sk)
                         /\ StaleSocks(sk') = StaleSocks(sk) \ {co[c].sock}
                         /\ ~InPool(pool', co[c].sock)
                         /\ SockClosed(sk', co[c].sock)]_vars

(* C12 witness: a pooled connection went stale in the outage, a coroutine  *)
(* failed on it, connected again, and has its result                       *)
C12_Witness ==
    /\ faults = 1
    /\ watcher = "listening"
    /\ StaleSocks(sk) = {}
    /\ \A c \in Cor : co[c].pc = "idle" /\ Len(co[c].ret) = 1
    /\ \E c \in Cor : co[c].ret[1].task # 0 /\ task[co[c].ret[1].task].ready = 0
    /\ Len(pool) = 1

----------------------------------------------------------------------------
(* C13: a connection that went stale while it rested in the pool is found  *)
(* out before it is used: the yield that takes a connection out of the     *)
(* pool goes on to send the task id only on a live connection.             *)
C13_StaleNotUsed ==
    [][\A c \in Cor :
          (co[c].pc = "yield" /\ co'[c].pc = "send")
              => sk[co'[c].sock].st = "open"]_vars

----------------------------------------------------------------------------
(* C14: once the listener has failed to bind, the bridge is out of use: no *)
(* call is started and no yield goes on to wait for a notification.        *)
C14_BindFailureAborts ==
    [][\A c \in Cor :
          watcher = "panicked" =>
              /\ ~(co[c].pc = "idle" /\ co'[c].pc = "poll")
              /\ ~(co[c].pc = "yield" /\ co'[c].pc = "connect")]_vars

----------------------------------------------------------------------------
(* C15: an operation that resolves, to a value or to an error, leaves the  *)
(* task in the state in which its signal is sent; the receiver a           *)
(* connection task awaits is then resolved and READY is written, whatever  *)
(* the outcome; and the call returns the outcome of its operation as it is. *)
C15_ErrorPropagates ==
    /\ [](\A s \in DOMAIN sk :
            (sk[s].srv = "waiting" /\ task[sk[s].wait].st # "running")
                => RxResolved(sk[s].wait))
    /\ [](\A c \in Cor : \A i \in 1..Len(co[c].ret) :
            LET r == co[c].ret[i]
            IN  r.task # 0 => r.out = task[r.task].out /\ r.out \in {"ok", "err"})
    /\ [][/\ \A t \in DOMAIN task :
                (task[t].st = "running" /\ task'[t].st # "running")
                    => task'[t].st = "signalled" /\ task'[t].out \in {"ok", "err"}
          /\ \A t \in DOMAIN task :
                task[t].st # "running" => task'[t].out = task[t].out
          /\ \A s \in DOMAIN sk :
                (sk[s].srv = "waiting" /\ sk[s].st = "open" /\ sk'[s] # sk[s]
                   /\ sk'[s].st = "open")
                    => sk'[s].rep = Append(sk[s].rep, "READY")]_vars

(* C15 witness: a coroutine was woken by READY for an operation that       *)
(* failed and the call has returned that error                             *)
C15_Witness ==
    \E c \in Cor :
        /\ Len(co[c].ret) = 1
        /\ co[c].ret[1].out = "err"
        /\ co[c].ret[1].task # 0
        /\ task[co[c].ret[1].task].ready = 1

----------------------------------------------------------------------------
(* A subscribe line for id i is on its way to a connection task *)
SubscribeInFlight(i) ==
    \E s \in DOMAIN sk : \E j \in 1..Len(sk[s].req) :
        ParseFutureId(Trim(sk[s].req[j])) = i

(* Task t was detached: its coroutine was abandoned and its future dropped *)
Detached(t) == task[t].owner = NoCor

(* C16 as claimed: the registry entry of an abandoned task is not taken    *)
(* out of the registry (it can only be replaced)                           *)
C16_AbandonedEntryStays ==
    [][\A i \in DOMAIN rxmap :
          Detached(rxmap[i]) => i \in DOMAIN rxmap']_vars

(* C16: every spawned task, detached or not, runs on: it sends its signal  *)
(* and then finishes; the registry entry of a detached task for which no   *)
(* subscribe line is on its way stays as it is until a call that is given  *)
(* the same id replaces it with its own.                                   *)
C16_DetachedRunsOn ==
    /\ <>[](\A t \in DOMAIN task : task[t].st = "finished")
    /\ [][\A t \in DOMAIN task :
            task'[t].st # task[t].st =>
                \/ task[t].st = "running" /\ task'[t].st = "signalled"
                \/ task[t].st = "signalled" /\ task'[t].st = "finished"]_vars
    /\ [][\A i \in DOMAIN rxmap :
            (Detached(rxmap[i]) /\ ~SubscribeInFlight(i)) =>
                /\ i \in DOMAIN rxmap'
                /\ \/ rxmap'[i] = rxmap[i]
                   \/ /\ Len(task') = Len(task) + 1
                      /\ rxmap'[i] = Len(task')
                      /\ task'[Len(task')].id = i]_vars

(* C16 witness: a call was given the id of a detached task and replaced    *)
(* its entry, was abandoned itself before it subscribed, and its task has  *)
(* finished with its entry still in the registry                           *)
C16_Witness ==
    \E t \in DOMAIN task :
        /\ t > 1
        /\ ReusesId(t)
        /\ Detached(t)
        /\ task[t].st = "finished"
        /\ task[1].ready = 0
        /\ task[t].id \in DOMAIN rxmap
        /\ rxmap[task[t].id] = t

----------------------------------------------------------------------------
(* C17: the registry has entries for task ids only (0..65535, so at most   *)
(* 65536 of them), each for a task of that id and no task under two ids;   *)
(* a registration stores the new receiver under its id and leaves every    *)
(* other entry alone, so on an id that still has an entry it replaces that *)
(* entry; and the registry grows only by the registration of an id that    *)
(* had no entry.                                                           *)
C17_RegistryBounded ==
    /\ [](/\ DOMAIN rxmap \subseteq 0..(FutureIdModulus - 1)
          /\ Cardinality(DOMAIN rxmap) <= FutureIdModulus
          /\ \A i \in DOMAIN rxmap :
                rxmap[i] \in DOMAIN task /\ task[rxmap[i]].id = i
          /\ \A i, j \in DOMAIN rxmap : rxmap[i] = rxmap[j] => i = j)
    /\ [][/\ Len(task') = Len(task) + 1 =>
                LET t == Len(task')
                    i == task'[t].id
                IN  /\ DOMAIN rxmap' = DOMAIN rxmap \cup {i}
                    /\ rxmap'[i] = t
                    /\ \A j \in DOMAIN rxmap \ {i} : rxmap'[j] = rxmap[j]
          /\ Cardinality(DOMAIN rxmap') > Cardinality(DOMAIN rxmap) =>
                /\ Len(task') = Len(task) + 1
                /\ task'[Len(task')].id \notin DOMAIN rxmap]_vars

(* C17 witness: the id counter wrapped from 65535 to 0; the call that got  *)
(* 65535 replaced the entry an abandoned task had left there, and both     *)
(* ids have their entry                                                    *)
C17_Witness ==
    /\ DOMAIN rxmap = {0, FutureIdModulus - 1}
    /\ task[1].id = FutureIdModulus - 1
    /\ task[1].ready = 0
    /\ rxmap[FutureIdModulus - 1] > 1
    /\ nextId = 1

----------------------------------------------------------------------------
(* C18: when a poll returns Ready (the call returns to the script), the    *)
(* registry has no entry left for the id of that call.                     *)
C18_ReadyReleasesEntry ==
    [][\A c \in Cor :
          (co[c].pc = "poll" /\ co'[c].pc = "idle")
              => co[c].id \notin DOMAIN rxmap']_vars

----------------------------------------------------------------------------
(* C20: a poll that returns Pending puts the id of its future into the     *)
(* active slot and the yield is entered on the same host slice; the yield  *)
(* caches that id at entry, keeps it over connect, send and receive, and   *)
(* the line it sends is that id in decimal, whatever the slot holds by     *)
(* then.                                                                   *)
C20_SendsCachedId ==
    /\ [](\A c \in Cor :
            /\ co[c].pc = "yield" => cur = c /\ active = co[c].id
            /\ co[c].pc \in {"connect", "send", "receive", "cooldown", "sleep"}
                  => co[c].fid = co[c].id /\ co[c].id # NoId)
    /\ [][\A c \in Cor :
            /\ (co[c].pc = "poll" /\ co'[c].pc = "yield")
                  => active' = co[c].id /\ cur' = c
            /\ (co[c].pc = "yield" /\ co'[c].pc # "yield")
                  => co'[c].fid = co[c].id
            /\ (co[c].pc = "send" /\ co'[c].pc = "receive"
                   /\ sk[co[c].sock].st = "open")
                  => sk'[co[c].sock].req =
                        Append(sk[co[c].sock].req, ToDecimal(co[c].id))]_vars

(* C20 witness: a coroutine has sent its own id although another coroutine *)
(* had put its id into the slot before the send                            *)
C20_Witness ==
    \E c \in Cor :
        /\ co[c].pc = "receive"
        /\ sk[co[c].sock].req = <<ToDecimal(co[c].id)>>
        /\ active # co[c].id
        /\ \E d \in Cor \ {c} : co[d].pc = "connect" /\ active = co[d].id

----------------------------------------------------------------------------
(* C21: every poll that returns Pending has written the call's own id (in   *)
(* the queue variant the call's own wake-queue) into the active slot, on    *)
(* the first poll and on every later one, whatever the slot held before; a  *)
(* poll that returns Ready leaves the slot as it was.                       *)
C21_PendingWritesSlot ==
    [][/\ \A c \in Cor :
            /\ (co[c].pc = "poll" /\ co'[c].pc = "yield") => active' = co[c].id
            /\ (co[c].pc = "poll" /\ co'[c].pc = "idle") => active' = active
            /\ (co[c].pc = "poll" /\ co'[c].pc # "poll")
                   => co'[c].pc \in {"yield", "idle"}
       /\ \A c \in Cor :
            /\ (qco[c].pc = "poll" /\ qco'[c].pc = "yield") => achan' = qco[c].chan
            /\ (qco[c].pc = "poll" /\ qco'[c].pc = "idle") => achan' = achan
            /\ (qco[c].pc = "poll" /\ qco'[c].pc # "poll")
                   => qco'[c].pc \in {"yield", "idle"}]_vars

(* A later poll of a call returned Pending while another coroutine was    *)
(* inside new_yield with its own id: READY had been answered for the call, *)
(* its task had not returned yet, and the slot holds the call's id again.  *)
C21_Witness ==
    \E c, d \in Cor :
        /\ c # d
        /\ co[c].pc = "yield" /\ task[co[c].task].ready > 0 /\ active = co[c].id
        /\ co[d].pc \in {"connect", "send", "receive"} /\ co[d].fid # co[c].id

----------------------------------------------------------------------------
(* The coroutines that hold connection s *)
Holders(s) == {c \in Cor : co[c].sock = s}

(* Subscribes sent on connection s that the server has not answered yet *)
Outstanding(s) ==
    Len(sk[s].req) + (IF sk[s].srv = "waiting" THEN 1 ELSE 0)

(* One change of position of coroutine c inside new_yield, in the order of *)
(* the function's statements                                                *)
YieldStepInOrder(c) ==
    LET s == co[c].sock
        to == co'[c].pc
    IN  CASE co[c].pc = "yield" ->
               /\ to \in {"send", "connect"}
               /\ co'[c].fid = active
               /\ to = "send" => /\ pool # <<>>
                                 /\ co'[c].sock = pool[Len(pool)]
                                 /\ ~InPool(pool', co'[c].sock)
               /\ to = "connect" => /\ pool = <<>>
                                    /\ co'[c].sock \notin DOMAIN sk
                                    /\ sk'[co'[c].sock].st = "new"
          [] co[c].pc = "connect" ->
               /\ to \in {"send", "sleep"}
               /\ to = "send" => sk'[s].st = "open" /\ co'[c].sock = s
          [] co[c].pc = "send" ->
               /\ to \in {"receive", "sleep"}
               /\ (to = "receive" /\ sk[s].st = "open")
                      => sk'[s].req = Append(sk[s].req, ToDecimal(co[c].fid))
          [] co[c].pc = "receive" ->
               /\ to \in {"poll", "cooldown", "sleep"}
               /\ to \in {"poll", "cooldown"} => sk[s].rep # <<>>
               /\ to = "cooldown" => sk'[s].rep = Tail(sk[s].rep) /\ co'[c].sock = s
               /\ to = "poll" => /\ co'[c].sock = NoSock
                                 /\ InPool(pool', s) \/ SockClosed(sk', s)
          [] co[c].pc = "cooldown" ->
               /\ to = "poll"
               /\ co'[c].sock = NoSock
               /\ InPool(pool', s) \/ SockClosed(sk', s)
          [] co[c].pc = "sleep" -> to = "poll" /\ co'[c].sock = NoSock
          [] OTHER -> TRUE

(* C22: one pass of the overridden yield reads the active id, checks out a  *)
(* pooled connection or connects a new one, sends the id, receives one      *)
(* reply line and checks the connection in, in this order.  A connection is *)
(* in the pool only while no coroutine uses it: no two coroutines hold the  *)
(* same connection, and a connection carries at most one subscribe that is  *)
(* not answered yet.                                                        *)
C22_OnePassInOrder ==
    /\ [](\A s \in DOMAIN sk :
            /\ Cardinality(Holders(s)) <= 1
            /\ InPool(pool, s) => Holders(s) = {} /\ Outstanding(s) = 0
            /\ Outstanding(s) <= 1)
    /\ [](\A i, j \in 1..Len(pool) : pool[i] = pool[j] => i = j)
    /\ [][\A c \in Cor : co'[c].pc # co[c].pc => YieldStepInOrder(c)]_vars

(* Two coroutines are inside new_yield at once, each on its own connection *)
(* with its own subscribe outstanding.                                     *)
C22_Witness ==
    \E c, d \in Cor :
        /\ c # d
        /\ co[c].pc = "receive" /\ co[d].pc = "receive"
        /\ co[c].sock # co[d].sock
        /\ sk[co[c].sock].srv = "waiting" /\ sk[co[c].sock].wid = co[c].id
        /\ Outstanding(co[d].sock) = 1

----------------------------------------------------------------------------
(* C23: a poll hands a result to the script only when the call's own        *)
(* operation has resolved and its task has returned; a poll made before     *)
(* that, whatever resumed the coroutine (an ERR reply, a transport error, a *)
(* READY or a queue item that came too early), returns Pending, hands       *)
(* nothing out, and the coroutine goes into the yield again.                *)
C23_ReadyOnlyWhenResolved ==
    [][/\ \A c \in Cor :
            co[c].pc = "poll" /\ co'[c] # co[c]
               => IF task[co[c].task].st = "finished"
                  THEN /\ co'[c].pc = "idle"
                       /\ co'[c].ret = Append(co[c].ret,
                                               [task |-> co[c].task,
                                                out |-> task[co[c].task].out])
                  ELSE co'[c].pc = "yield" /\ co'[c].ret = co[c].ret
       /\ \A c \in Cor :
            qco[c].pc = "poll" /\ qco'[c] # qco[c]
               => IF qtask[qco[c].task].st = "finished"
                  THEN /\ qco'[c].pc = "idle"
                       /\ qco'[c].ret = Append(qco[c].ret,
                                                [task |-> qco[c].task,
                                                 out |-> qtask[qco[c].task].out])
                  ELSE qco'[c].pc = "yield" /\ qco'[c].ret = qco[c].ret]_vars

(* A coroutine of the queue variant was resumed by its item while its task *)
(* had sent the notification and not returned yet: the poll was Pending    *)
(* and the coroutine is in the yield again with nothing handed out.        *)
C23_Witness ==
    \E c \in Cor :
        /\ qco[c].pc \in {"yield", "wait"}
        /\ qco[c].woke = "item"
        /\ qtask[qco[c].task].st = "notified"
        /\ qco[c].ret = <<>>

----------------------------------------------------------------------------
(* A subscribe for task t got through: a connection task holds or held its *)
(* receiver                                                                *)
Taken(t) ==
    \/ task[t].ready > 0
    \/ \E s \in DOMAIN sk : sk[s].srv = "waiting" /\ sk[s].wait = t

(* C24: the receiver of a task is in the registry from the call on, before  *)
(* the coroutine can yield, until a subscribe takes it; so the first        *)
(* subscribe for the task that the server reads finds the entry and is not  *)
(* answered ERR: the connection task takes the receiver and waits for it.   *)
(* (No id is allocated twice in these runs.)                                *)
C24_FirstSubscribeFindsEntry ==
    /\ [](\A t \in DOMAIN task :
            \/ Taken(t)
            \/ task[t].id \in DOMAIN rxmap /\ rxmap[task[t].id] = t)
    /\ [][\A s \in DOMAIN sk : \A t \in DOMAIN task :
            (TakesSubscribe(s, task[t].id) /\ ~Taken(t))
               => /\ s \in DOMAIN sk'
                  /\ sk'[s].srv = "waiting"
                  /\ sk'[s].wait = t
                  /\ sk'[s].rep = sk[s].rep
                  /\ task[t].id \notin DOMAIN rxmap']_vars

(* The first subscribe of a call was read after the task had finished: the *)
(* entry was still there and the connection task holds the receiver.       *)
C24_Witness ==
    \E c \in Cor : \E s \in DOMAIN sk :
        /\ co[c].pc = "receive" /\ co[c].sock = s
        /\ sk[s].srv = "waiting" /\ sk[s].wait = co[c].task
        /\ task[co[c].task].st = "finished"
        /\ task[co[c].task].ready = 0

----------------------------------------------------------------------------
(* The task registered last under id i *)
NewestOf(i) ==
    CHOOSE t \in DOMAIN task :
        task[t].id = i /\ \A u \in DOMAIN task : task[u].id = i => u <= t

(* Task t was registered, nobody subscribed for it, and its id was given   *)
(* to a later task: its entry was replaced                                  *)
Replaced(t) == ~Taken(t) /\ \E u \in DOMAIN task : t < u /\ task[u].id = task[t].id

(* C25: when an id is allocated again while the earlier task of that id     *)
(* still has its entry, the new registration replaces the old one.  The     *)
(* earlier task's later signal changes nothing but the task itself: no      *)
(* entry, no connection and no coroutine is touched.  A subscribe for the   *)
(* id is served with the receiver of the newest task of that id and is      *)
(* answered READY only after that task has sent its signal.                 *)
C25_ReplacedSignalIsSilent ==
    /\ [](\A i \in DOMAIN rxmap : rxmap[i] = NewestOf(i))
    /\ [][\A t \in DOMAIN task :
            (Replaced(t) /\ task[t].st = "running" /\ task'[t].st # "running")
               => /\ sk' = sk /\ rxmap' = rxmap /\ co' = co /\ pool' = pool
                  /\ \A u \in DOMAIN task : u # t => task'[u] = task[u]]_vars
    /\ [][\A s \in DOMAIN sk : \A i \in DOMAIN rxmap :
            TakesSubscribe(s, i)
               => s \in DOMAIN sk' /\ sk'[s].srv = "waiting"
                  /\ sk'[s].wait = NewestOf(i)]_vars
    /\ [][\A s \in DOMAIN sk :
            (sk[s].srv = "waiting" /\ (s \notin DOMAIN sk' \/ sk'[s].srv # "waiting"))
               => task[NewestOf(sk[s].wid)].st \in {"signalled", "finished"}]_vars

(* The earlier task of a replaced entry has sent its signal (its operation *)
(* failed) while the new task of that id is still running and a connection *)
(* task waits for the new task's receiver on behalf of the new call.       *)
C25_Witness ==
    /\ Replaced(1) /\ task[1].out = "err"
    /\ \E c \in Cor : \E s \in DOMAIN sk :
          /\ co[c].pc = "receive" /\ co[c].sock = s
          /\ co[c].id = task[1].id
          /\ sk[s].srv = "waiting" /\ sk[s].wait = co[c].task
          /\ task[co[c].task].st = "running"

----------------------------------------------------------------------------
(* C26: ids come from one 16-bit counter.  The first id allocated is 1,     *)
(* each allocation returns the id before it plus one modulo 65536 (65535 is *)
(* followed by 0), and the ids of 65536 allocations in a row are pairwise   *)
(* distinct: an id comes back only with the 65537th allocation.             *)
C26_IdsCountUp ==
    /\ [][issued'.n = issued.n + 1
            => /\ issued'.last = IF issued.n = 0 THEN 1
                                 ELSE IF issued.last = 65535 THEN 0
                                 ELSE issued.last + 1
               /\ issued'.last \in 0..65535
               /\ issued.n < 65536 => ~InIds(issued.ids, issued'.last)
               /\ issued.n = 65536 => InIds(issued.ids, issued'.last)]_vars
    /\ [](issued.n <= 65536 => SizeIds(issued.ids) = issued.n)
    /\ [](issued.n < MaxAlloc => ENABLED Allocate)

(* 65536 ids were allocated in a row, the last of them after the wrap *)
C26_Witness ==
    /\ issued.n = 65536
    /\ issued.last = 0
    /\ InIds(issued.ids, 65535)

----------------------------------------------------------------------------
(* The positions of a coroutine inside the overridden yield *)
InYield == {"yield", "connect", "send", "receive", "sleep", "cooldown"}

QInYield == {"yield", "wait", "sleep"}

(* C27: the overridden yield never returns without having waited.  In the   *)
(* loopback variant it returns from the receive with the reply READY, or    *)
(* from msleep(1) after a connect, send or receive error or after a reply   *)
(* other than READY; in the queue variant it returns from pop_wait with an  *)
(* item or from msleep(1).  In each case the coroutine was suspended: the   *)
(* host thread was free when the yield returned.                            *)
C27_YieldWaits ==
    [][/\ \A c \in Cor :
            (co[c].pc \in InYield /\ co'[c].pc \notin InYield)
               => /\ co'[c].pc = "poll"
                  /\ cur = NoCor
                  /\ \/ /\ co[c].pc = "receive"
                        /\ sk[co[c].sock].rep # <<>>
                        /\ Head(sk[co[c].sock].rep) = "READY"
                     \/ /\ co[c].pc = "sleep"
                        /\ co[c].timer = COOLDOWN_MS
                        /\ co[c].woke \in IoErrors
                     \/ /\ co[c].pc = "cooldown"
                        /\ co[c].timer = COOLDOWN_MS
                        /\ co[c].woke # "READY"
       /\ \A c \in Cor :
            (co[c].pc \in InYield /\ co'[c].pc \in {"sleep", "cooldown"}
                /\ co'[c].pc # co[c].pc)
               => co'[c].timer = COOLDOWN_MS
       /\ \A c \in Cor :
            (qco[c].pc \in QInYield /\ qco'[c].pc \notin QInYield)
               => /\ qco'[c].pc = "poll"
                  /\ qcur = NoCor
                  /\ \/ /\ qco[c].pc = "wait"
                        /\ queue[qco[c].wq] > 0
                        /\ queue'[qco[c].wq] = queue[qco[c].wq] - 1
                     \/ qco[c].pc = "sleep"]_vars

(* The yield returned after msleep(1) because the reply was not READY, and *)
(* the coroutine, its task still running, polls again.                     *)
C27_Witness ==
    \E c \in Cor :
        /\ co[c].pc = "poll" /\ cur = c
        /\ co[c].woke = "ERR"
        /\ task[co[c].task].st = "running"

----------------------------------------------------------------------------
(* C28: the pool of wake-queues never holds more than POOL_MAX_SIZE.  When  *)
(* a future becomes Ready its id leaves the map and its queue is pushed to  *)
(* the pool if the pool holds fewer than POOL_MAX_SIZE, else the queue is   *)
(* dropped; in both cases the call returns the result of its task.          *)
C28_QueuePoolBounded ==
    /\ [](Len(qpool) <= 512)
    /\ [][\A c \in Cor :
            (qco[c].pc = "poll" /\ qco'[c].pc = "idle")
               => /\ IF Len(qpool) < 512
                     THEN qpool' = Append(qpool, qco[c].chan)
                     ELSE qpool' = qpool /\ qco[c].chan \notin DOMAIN queue'
                  /\ qco[c].id \notin DOMAIN future2channel'
                  /\ qco'[c].ret = Append(qco[c].ret,
                                          [task |-> qco[c].task,
                                           out |-> qtask[qco[c].task].out])]_vars

(* A call returned its result at a full pool: its queue was dropped *)
C28_Witness ==
    \E c \in Cor :
        /\ Len(qpool) = 512
        /\ Len(qco[c].ret) = 1 /\ qco[c].ret[1].task = c
        /\ \A i \in 1..Len(qpool) : qpool[i] <= 512
        /\ 512 + c \notin DOMAIN queue

----------------------------------------------------------------------------
(* The watcher task takes a line off its stream in this step *)
WatcherTakes(line) ==
    /\ notifier.stream # <<>>
    /\ Head(notifier.stream) = line
    /\ notifier'.stream = Tail(notifier.stream)

(* The ids whose notification is on its way to the watcher *)
Notifying == {notifier.chan[i] : i \in 1..Len(notifier.chan)}
                \cup {UnpackFutureId(notifier.stream[i]) : i \in 1..Len(notifier.stream)}

(* C29: a wake-up for a future id that is not in the id-to-queue map is a   *)
(* no-op: no item is pushed to any queue, also not to the released queue    *)
(* that serves another call by then, no coroutine, map or pool changes, and *)
(* the watcher goes on.  A wake-up for an id in the map pushes one item to  *)
(* the queue stored under that id and to no other.                          *)
C29_StaleWakeUpIsNoop ==
    [][\A t \in DOMAIN qtask :
          WatcherTakes(ToDecimal(qtask[t].id))
             => /\ notifier'.st = "connected"
                /\ qco' = qco /\ qpool' = qpool /\ achan' = achan
                /\ future2channel' = future2channel /\ qtask' = qtask
                /\ IF qtask[t].id \in DOMAIN future2channel
                   THEN queue' = [queue EXCEPT ![future2channel[qtask[t].id]] = @ + 1]
                   ELSE queue' = queue]_vars

(* A call returned at its first poll, its queue went to the pool and was   *)
(* taken by the next call; the notification of the first call has been     *)
(* consumed by the watcher since, and the second call, its task running,   *)
(* still waits on the empty queue.                                         *)
C29_Witness ==
    \E c, d \in Cor :
        /\ c # d
        /\ qco[c].pc = "idle" /\ qco[c].woke = "none"
        /\ Len(qco[c].ret) = 1 /\ qco[c].ret[1].task # 0
        /\ qtask[qco[c].ret[1].task].id \notin Notifying
        /\ qco[d].pc = "wait"
        /\ DOMAIN queue = {qco[d].chan}
        /\ queue[qco[d].chan] = 0
        /\ qtask[qco[d].task].st = "running"

----------------------------------------------------------------------------
(* C30: a coroutine of the queue variant is never left blocked in pop_wait  *)
(* with no further wake-up coming: while it waits on an empty queue, its    *)
(* task is still running or the task's notification is still on its way to  *)
(* the watcher, so every call whose operation resolves gets to the poll     *)
(* that returns Ready.                                                      *)
C30_NoLostWakeUp ==
    \A c \in Cor :
        (qco[c].pc = "wait" /\ queue[qco[c].wq] = 0)
           => \/ qtask[qco[c].task].st = "running"
              \/ qco[c].id \in Notifying

----------------------------------------------------------------------------
(* A wrapped operation that panics.  tokio catches the panic of a spawned   *)
(* task: the task's future is dropped, with everything it owns, and the     *)
(* join handle resolves to a JoinError.                                     *)

(* Loopback variant: the unwinding drops the oneshot sender unsent, which   *)
(* resolves the receiver (with an error that `_ = rx.await` discards)       *)
(* before the join handle resolves.                                         *)
TaskPanic(t) ==
    /\ t \in DOMAIN task
    /\ task[t].st = "running"
    /\ task' = [task EXCEPT ![t].st = "signalled", ![t].out = "panic"]
    /\ UNCHANGED <<cur, co, active, pool, nextId, watcher, rxmap, sk, faults, probe, lua, rt,
                   issued, np, qvars>>

(* Queue variant: the panic leaves the task before notifier.send(future_id), *)
(* so no id goes to the notification task; the join handle resolves.        *)
QTaskPanic(t) ==
    /\ qtask[t].st = "running"
    /\ qtask' = [qtask EXCEPT ![t].st = "finished", ![t].out = "panic"]
    /\ UNCHANGED <<qcur, qco, achan, qpool, qnextId, future2channel, queue, notifier,
                   avars>>

PanicNext == NextFair \/ \E t \in AllTasks : TaskPanic(t)

PanicFairSpec == Init /\ [][PanicNext]_vars /\ Fairness

QPanicNext == QueueNext \/ \E t \in DOMAIN qtask : QTaskPanic(t)

QPanicSpec == Init /\ [][QPanicNext]_vars

(* A call of the loopback variant whose operation panicked returns *)
PanicReturns == \A c \in Cor : <>[](co[c].pc = "idle")

(* C31: a call whose wrapped operation panicked is still woken: a coroutine *)
(* of the queue variant that waits in pop_wait on an empty queue for a task *)
(* that ended in a panic has the task's notification on its way to the      *)
(* watcher, so the call gets to the poll that returns the error.            *)
C31_PanicStillWakes ==
    \A c \in Cor :
        (qco[c].pc = "wait" /\ queue[qco[c].wq] = 0 /\ qtask[qco[c].task].out = "panic")
           => qco[c].id \in Notifying

----------------------------------------------------------------------------
(* The step of an invocation that returned its argument-conversion error *)
ArgErrReturned(old, new) ==
    /\ Len(new) = Len(old) + 1
    /\ new[Len(new)].out = "argerr"

(* C32: an invocation whose argument conversion fails returns the error at  *)
(* once, spawns no task, and leaves the task registry and the pool as they  *)
(* were: no registry entry and no checked-out socket or queue stays behind. *)
C32_ArgErrorLeavesNoTrace ==
    [][\A c \in Cor :
         /\ ArgErrReturned(co[c].ret, co'[c].ret)
              => /\ co'[c].pc = "idle"
                 /\ task' = task
                 /\ rxmap' = rxmap
                 /\ pool' = pool
         /\ ArgErrReturned(qco[c].ret, qco'[c].ret)
              => /\ qco'[c].pc = "idle"
                 /\ qtask' = qtask
                 /\ future2channel' = future2channel
                 /\ qpool' = qpool
                 /\ DOMAIN queue' = DOMAIN queue]_vars

----------------------------------------------------------------------------
(* The connection task of socket s takes the next request line off an open *)
(* connection.                                                             *)
SrvTakesLine(s) ==
    /\ s \in DOMAIN sk /\ s \in DOMAIN sk'
    /\ sk[s].st = "open" /\ sk'[s].st = "open"
    /\ sk[s].srv = "reading"
    /\ sk[s].req # <<>>
    /\ sk'[s].req = Tail(sk[s].req)

(* C33: every request line the notification server reads gets one reply    *)
(* line on the same connection before the next line is read: the reply is  *)
(* written in the step that reads the line, or the connection task waits   *)
(* for the task's signal and writes it then.  This holds of every line,    *)
(* also of one that is neither PING nor a decimal id.                      *)
C33_EveryLineAnswered ==
    [][\A s \in DOMAIN sk :
         SrvTakesLine(s)
            => \/ sk'[s].srv = "waiting"
               \/ /\ sk'[s].srv = "reading"
                  /\ Len(sk'[s].rep) = Len(sk[s].rep) + 1]_vars

----------------------------------------------------------------------------
(* The notification connection of the queue variant fails.                  *)

MaxRecvErrs == 2

(* The connection between the notification task and the watcher breaks;    *)
(* the lines in flight are lost.                                            *)
LinkFault ==
    /\ notifier.st = "connected"
    /\ notifier' = [notifier EXCEPT !.st = "broken", !.stream = <<>>]
    /\ UNCHANGED <<qcur, qco, achan, qpool, qnextId, future2channel, queue, qtask, avars>>

(* The notification task on a broken connection: rx.recv() hands out the   *)
(* next id and write_all either fails, and the task breaks out to accept,  *)
(* or still succeeds into the socket buffer of the dead connection.  The   *)
(* id is not kept in either case.                                          *)
NotifyWriteFails ==
    /\ notifier.st = "broken"
    /\ notifier.srv = "stream"
    /\ notifier.chan # <<>>
    /\ \E reported \in BOOLEAN :
         notifier' = [notifier EXCEPT !.chan = Tail(@),
                                      !.srv = IF reported THEN "accept" ELSE @]
    /\ UNCHANGED <<qcur, qco, achan, qpool, qnextId, future2channel, queue, qtask, avars>>

(* The watcher task on a broken connection: socket:receive("*l") returns   *)
(* nil, future_wake_up(nil) unpacks no id and does nothing, and the inner  *)
(* `while true` goes round to receive on the same socket.                  *)
WatcherRecvFails ==
    /\ qcur = NoCor
    /\ notifier.st = "broken"
    /\ notifier.errs < MaxRecvErrs
    /\ notifier' = [notifier EXCEPT !.errs = @ + 1]
    /\ UNCHANGED <<qcur, qco, achan, qpool, qnextId, future2channel, queue, qtask, avars>>

(* socket:connect fails: the watcher task alerts and returns *)
WatcherConnectFails ==
    /\ qcur = NoCor
    /\ notifier.st = "bound"
    /\ notifier' = [notifier EXCEPT !.st = "gone"]
    /\ UNCHANGED <<qcur, qco, achan, qpool, qnextId, future2channel, queue, qtask, avars>>

QLinkNext ==
    \/ QueueNext
    \/ LinkFault
    \/ NotifyWriteFails
    \/ WatcherRecvFails
    \/ WatcherConnectFails

QLinkSpec == Init /\ [][QLinkNext]_vars

(* C34: the notifier task loses no completion id: when a write to the       *)
(* current connection fails and the task goes back to accept, the id it     *)
(* took from the channel is still held for the next connection.            *)
C34_FailedWriteKeepsId ==
    [][(notifier.srv = "stream" /\ notifier'.srv = "accept")
          => notifier'.chan = notifier.chan]_vars

(* C35: the watcher task recovers from a lost connection: a receive that   *)
(* fails takes it out of the receive loop to open a new connection, it     *)
(* does not receive on the dead socket again.                              *)
C35_WatcherReconnects ==
    [][notifier'.errs > notifier.errs => notifier'.st = "bound"]_vars

----------------------------------------------------------------------------
(* The queues the pool holds *)
Pooled == {qpool[i] : i \in 1..Len(qpool)}

(* C36: a wake-queue of the queue variant belongs to at most one in-flight  *)
(* task: no queue is in the pool and in the id-to-queue map at once, the    *)
(* pool holds no queue twice, no two ids of the map refer to one queue, and *)
(* a call in flight has the queue the map stores under its id.              *)
C36_QueueHasOneOwner ==
    /\ \A id \in DOMAIN future2channel : future2channel[id] \notin Pooled
    /\ \A i, j \in 1..Len(qpool) : qpool[i] = qpool[j] => i = j
    /\ \A a, b \in DOMAIN future2channel :
          future2channel[a] = future2channel[b] => a = b
    /\ \A c \in Cor :
          qco[c].pc # "idle"
             => /\ qco[c].id \in DOMAIN future2channel
                /\ future2channel[qco[c].id] = qco[c].chan

(* C36 witness: a call has returned and its queue is in the pool, or serves *)
(* the next call, while another call waits on a queue of its own.           *)
C36_Witness ==
    \E c, d \in Cor :
        /\ qco[c].ret # <<>>
        /\ qco[c].ret[1].task # 0
        /\ qco[d].pc = "wait"
        /\ qco[d].calls = 1
        /\ Len(qpool) = 1
        /\ qpool[1] # qco[d].chan

----------------------------------------------------------------------------
(* NOTIFICATION_PORT and WATCHER across the threads of the process.  Every  *)
(* host thread may register async functions (create_async_function calls   *)
(* get_notification_port) and run async calls (the closure calls           *)
(* get_future_id, whose WATCHER closure calls get_notification_port and    *)
(* spawns the listener task).  Both cells are OnceLocks: one caller runs    *)
(* the closure while the others wait, and a closure that panics leaves the *)
(* cell empty.                                                             *)

Ports == 1..NumPorts

(* get_notification_port returns to its caller: create_async_function has  *)
(* its port, the WATCHER closure goes on to spawn the listener task.       *)
PortReturn(n, th, p) ==
    [n EXCEPT !.thr[th].port = p,
              !.thr[th].pc = IF n.thr[th].ctx = "watch" THEN "spawn" ELSE "out"]

(* create_async_function: get_notification_port, fast path of get_or_init *)
CafEnter(th) ==
    /\ np.thr[th].pc = "out"
    /\ np.thr[th].calls < MaxPortCalls
    /\ LET n == [np EXCEPT !.thr[th].calls = @ + 1, !.thr[th].ctx = "caf"]
       IN  np' = IF np.port.once = "complete"
                 THEN PortReturn(n, th, np.port.val)
                 ELSE [n EXCEPT !.thr[th].pc = "pinit"]
    /\ UNCHANGED <<cur, co, active, pool, nextId, watcher, rxmap, task, sk, faults, probe, lua,
                   rt, issued, qvars>>

(* get_future_id: WATCHER.get_or_init, fast path; then the id is taken *)
IdEnter(th) ==
    /\ np.thr[th].pc = "out"
    /\ np.thr[th].calls < MaxPortCalls
    /\ LET n == [np EXCEPT !.thr[th].calls = @ + 1, !.thr[th].ctx = "watch"]
       IN  np' = IF np.watcher.once = "complete"
                 THEN [n EXCEPT !.thr[th].ids = @ + 1]
                 ELSE [n EXCEPT !.thr[th].pc = "winit"]
    /\ UNCHANGED <<cur, co, active, pool, nextId, watcher, rxmap, task, sk, faults, probe, lua,
                   rt, issued, qvars>>

(* The caller enters the Once of WATCHER: done if it is complete by now,   *)
(* else it takes the Once and its closure calls get_notification_port.     *)
WatcherOnceCall(th) ==
    /\ np.thr[th].pc = "winit"
    /\ \/ /\ np.watcher.once = "complete"
          /\ np' = [np EXCEPT !.thr[th].pc = "out", !.thr[th].ids = @ + 1]
       \/ /\ OnceMayRun(np.watcher.once)
          /\ np' = [np EXCEPT !.watcher.once = "running", !.watcher.runs = @ + 1,
                              !.thr[th].pc = "pinit"]
    /\ UNCHANGED <<cur, co, active, pool, nextId, watcher, rxmap, task, sk, faults, probe, lua,
                   rt, issued, qvars>>

(* The caller enters the Once of NOTIFICATION_PORT: the stored port if it  *)
(* is complete, else it takes the Once and binds a listener to port 0.     *)
PortOnceCall(th) ==
    /\ np.thr[th].pc = "pinit"
    /\ \/ /\ np.port.once = "complete"
          /\ np' = PortReturn(np, th, np.port.val)
       \/ /\ OnceMayRun(np.port.once)
          /\ np' = [np EXCEPT !.port.once = "running", !.port.runs = @ + 1,
                              !.thr[th].pc = "pbind"]
    /\ UNCHANGED <<cur, co, active, pool, nextId, watcher, rxmap, task, sk, faults, probe, lua,
                   rt, issued, qvars>>

(* StdTcpListener::bind("127.0.0.1:0"): the system picks a free port, which *)
(* is stored, or the bind fails and expect panics; the panic leaves the    *)
(* cell empty, and also WATCHER when its closure made the call.            *)
PortBound(th) ==
    /\ np.thr[th].pc = "pbind"
    /\ \/ \E p \in Ports :
            np' = PortReturn([np EXCEPT !.port.once = "complete", !.port.val = p],
                             th, p)
       \/ np' = [np EXCEPT !.port.once = "poisoned",
                           !.watcher.once = IF np.thr[th].ctx = "watch"
                                            THEN "poisoned" ELSE @,
                           !.thr[th].pc = "panicked"]
    /\ UNCHANGED <<cur, co, active, pool, nextId, watcher, rxmap, task, sk, faults, probe, lua,
                   rt, issued, qvars>>

(* The WATCHER closure spawns the listener task for the port it got and    *)
(* returns: WATCHER is set and get_future_id takes its id.  runtime() may  *)
(* panic instead, which leaves WATCHER empty and spawns nothing.           *)
WatcherSpawn(th) ==
    /\ np.thr[th].pc = "spawn"
    /\ \/ np' = [np EXCEPT !.listeners = Append(@, np.thr[th].port),
                           !.watcher.once = "complete",
                           !.thr[th].pc = "out", !.thr[th].ids = @ + 1]
       \/ np' = [np EXCEPT !.watcher.once = "poisoned",
                           !.thr[th].pc = "panicked"]
    /\ UNCHANGED <<cur, co, active, pool, nextId, watcher, rxmap, task, sk, faults, probe, lua,
                   rt, issued, qvars>>

PortNext ==
    \/ \E th \in Thr : CafEnter(th)
    \/ \E th \in Thr : IdEnter(th)
    \/ \E th \in Thr : WatcherOnceCall(th)
    \/ \E th \in Thr : PortOnceCall(th)
    \/ \E th \in Thr : PortBound(th)
    \/ \E th \in Thr : WatcherSpawn(th)

PortSpec == Init /\ [][PortNext]_vars

(* C37: the notification listener task is spawned at most once in the      *)
(* process, by an id allocation and never by a registration alone, for the *)
(* port that get_notification_port stored; the stored port never changes,  *)
(* every thread that got a port from create_async_function or in the       *)
(* WATCHER closure got that port, and every id was allocated after the     *)
(* listener task was spawned.                                              *)
C37_OneListenerOnePort ==
    /\ [](/\ Len(np.listeners) <= 1
          /\ np.port.once = "complete" <=> np.port.val \in Ports
          /\ np.watcher.once = "complete" <=> Len(np.listeners) = 1
          /\ \A i \in 1..Len(np.listeners) : np.listeners[i] = np.port.val
          /\ \A th \in Thr :
               /\ np.thr[th].port # 0 => np.thr[th].port = np.port.val
               /\ np.thr[th].ids > 0 => Len(np.listeners) = 1)
    /\ [][/\ np.port.val # 0 => np'.port.val = np.port.val
          /\ Len(np'.listeners) > Len(np.listeners)
               => \E th \in Thr : /\ np.thr[th].ctx = "watch"
                                  /\ np'.thr[th].ids = np.thr[th].ids + 1]_vars

(* C37 witness: the first bind panicked and a later caller chose the port; *)
(* one thread spawned the listener, another registered a function and a    *)
(* third allocated an id, all with the one port and the one listener.      *)
C37_Witness ==
    /\ np.port.runs >= 2
    /\ Len(np.listeners) = 1
    /\ \E a, b \in Thr :
          /\ a # b
          /\ np.thr[a].ids > 0 /\ np.thr[b].ids > 0
          /\ np.thr[a].port = np.port.val
    /\ \E d \in Thr : np.thr[d].ctx = "caf" /\ np.thr[d].port = np.port.val

----------------------------------------------------------------------------
(* The failures of YieldFixUp::new before the pool is in the registry *)
PoolFailures == {"registry", "userdata", "setreg"}

(* C38: a Lua state has one connection pool.  A create_async_function call *)
(* that finds no pool in the registry and does not fail on the way makes   *)
(* one and stores it; a call that finds one leaves it there and makes no   *)
(* other; and every async function of the state works on the pool that is  *)
(* in the registry, so all of them share it and its cap.                   *)
C38_OnePoolPerState ==
    /\ [](/\ Cardinality(lua.fpool) <= 1
          /\ lua.nfuncs > 0 => (lua.regpool # 0 /\ lua.fpool = {lua.regpool})
          /\ lua.npools = (IF lua.regpool # 0 THEN 1 ELSE 0)
          /\ Len(pool) <= PER_WORKER_POOL_SIZE)
    /\ [][lua'.nreg = lua.nreg + 1
            => /\ lua.regpool # 0
                  => (lua'.regpool = lua.regpool /\ lua'.made = lua.made)
               /\ (lua.regpool = 0 /\ lua'.last.failNew \notin PoolFailures)
                  => (lua'.regpool = lua.made + 1 /\ lua'.made = lua.made + 1)]_vars

(* C38 witness: a first call made a pool and failed to store it, the next  *)
(* made the pool that is stored, and two async functions share that one.   *)
C38_Witness ==
    /\ lua.made = 2
    /\ lua.nfuncs = 2
    /\ lua.fpool = {lua.regpool}

====
